---- MODULE Spec2Model ----
(***************************************************************************)
(* Kheng PhysioCare backend, src/server.js: the invoice create and update  *)
(* handlers (item normalisation, subtotal, discount, total, the multi-step *)
(* writes) and the dashboard aggregation (revenue trend, age buckets).     *)
(*                                                                         *)
(* Numbers.  A JavaScript number x is modelled by the integer 100 * x      *)
(* (fixed point, two decimals).  The request values of the model are whole *)
(* numbers, so every product and every division by 100 the handlers make   *)
(* is exact in this representation.  Infinity and the rounding of binary   *)
(* floating point are outside the model; NaN is modelled where parseFloat  *)
(* produces it.                                                            *)
(***************************************************************************)
EXTENDS Integers, Sequences, FiniteSets, TLC

VARIABLES
    invoices,        \* table invoices: id -> row
    invoice_items,   \* table invoice_items: invoice_id -> rows in insertion order
    products,        \* table products: id -> stock_level
    patients,        \* table patients: id -> row (date_of_birth)
    appointments,    \* table appointments: id -> row (day of start_time, status)
    env,             \* the server process: current instant and time zone
    req,             \* the requests in flight: route, body, position, locals, response
    invoice_id_seq,  \* the sequence behind invoices.id: the last id given out
    assigned_exercises, \* table assigned_exercises: id -> row
    settings,        \* table settings: id -> row (the clinic is row 1)
    exercises        \* table exercises: id -> row

\* the tables the invoice and dashboard handlers never touch
otherTables == <<assigned_exercises, settings, exercises>>

vars == <<invoices, invoice_items, products, patients, appointments, env, req,
          invoice_id_seq, otherTables>>

\* ------------------------------------------------------------------------
\* JSON values of a request body
\* ------------------------------------------------------------------------
Undefined == [k |-> "undefined"]
Null == [k |-> "null"]
\* the number x
Num(x) == [k |-> "number", n |-> x * 100]
\* a string that a numeric field carries, as its characters
Chars(cs) == [k |-> "string", cs |-> cs]
\* a string that a text field carries
Str(t) == [k |-> "string", t |-> t]
\* an array
Arr(a) == [k |-> "array", a |-> a]

IsDigit(c) == c \in {"0", "1", "2", "3", "4", "5", "6", "7", "8", "9"}

DigitVal(c) ==
    CASE c = "0" -> 0 [] c = "1" -> 1 [] c = "2" -> 2 [] c = "3" -> 3
      [] c = "4" -> 4 [] c = "5" -> 5 [] c = "6" -> 6 [] c = "7" -> 7
      [] c = "8" -> 8 [] c = "9" -> 9

RECURSIVE SkipSpaces(_)
SkipSpaces(cs) ==
    IF cs # <<>> /\ Head(cs) = " " THEN SkipSpaces(Tail(cs)) ELSE cs

RECURSIVE ReadDigits(_, _)
ReadDigits(cs, acc) ==
    IF cs # <<>> /\ IsDigit(Head(cs))
    THEN ReadDigits(Tail(cs), acc * 10 + DigitVal(Head(cs)))
    ELSE acc

NaN == [nan |-> TRUE, n |-> 0]

\* parseFloat: a number is itself; a string gives its longest numeric prefix
\* (leading blanks skipped, optional sign, digits; the strings of the model
\* hold no decimal point or exponent), NaN when there is none; undefined and
\* null give NaN.
parseFloat(val) ==
    IF val.k = "number" THEN [nan |-> FALSE, n |-> val.n]
    ELSE IF val.k = "string" THEN
        LET t == SkipSpaces(val.cs)
            neg == t # <<>> /\ Head(t) = "-"
            u == IF t # <<>> /\ Head(t) \in {"-", "+"} THEN Tail(t) ELSE t
        IN  IF u # <<>> /\ IsDigit(Head(u))
            THEN [nan |-> FALSE,
                  n |-> (IF neg THEN -1 ELSE 1) * ReadDigits(u, 0) * 100]
            ELSE NaN
    ELSE NaN

toNumber(val) ==
    LET n == parseFloat(val) IN IF ~n.nan THEN n.n ELSE 0

\* a ?? b
Coalesce(a, b) == IF a.k \in {"undefined", "null"} THEN b ELSE a

\* truthiness of a text field
Truthy(v) == v.k = "string" /\ v.t # ""

\* a || b
OrElse(a, b) == IF Truthy(a) THEN a ELSE b

\* a * b on the fixed-point representation
JsMul(a, b) == (a * b) \div 100

\* a / 100
JsDiv100(a) == a \div 100

Max(a, b) == IF a >= b THEN a ELSE b

\* ------------------------------------------------------------------------
\* Invoice calculation (POST /api/invoices, PATCH /api/invoices/:id)
\* ------------------------------------------------------------------------
\* normalizeItem with a missing quantity read as 0 instead of 1
normalizeItemQuantityZero(item, idx) ==
    LET qty == toNumber(Coalesce(item.quantity, Num(0)))
        unit == toNumber(Coalesce(item.unit_price, Coalesce(item.price, Num(0))))
        serviceName == OrElse(item.service_name,
                              OrElse(item.service, Str("Item " \o ToString(idx + 1))))
    IN  [service_name |-> serviceName.t, quantity |-> qty, unit_price |-> unit]

normalizeItem(item, idx) ==
    LET qty == toNumber(Coalesce(item.quantity, Num(1)))
        unit == toNumber(Coalesce(item.unit_price, Coalesce(item.price, Num(0))))
        serviceName == OrElse(item.service_name,
                              OrElse(item.service, Str("Item " \o ToString(idx + 1))))
    IN  [service_name |-> serviceName.t, quantity |-> qty, unit_price |-> unit]

\* keepItem without the test of the quantity
keepItemByLabel(i) == i.service_name # ""

keepItem(i) == i.service_name # "" /\ i.quantity > 0

normalizedItems(items) ==
    SelectSeq([j \in 1..Len(items) |-> normalizeItem(items[j], j - 1)], keepItem)

RECURSIVE subtotalFromItems(_)
subtotalFromItems(nitems) ==
    IF nitems = <<>> THEN 0
    ELSE subtotalFromItems(SubSeq(nitems, 1, Len(nitems) - 1))
         + JsMul(nitems[Len(nitems)].quantity, nitems[Len(nitems)].unit_price)

\* subtotalOf with the item sum tested for non-zero instead of positive
subtotalOfNonZero(fromItems, subtotalFromBody) ==
    IF fromItems # 0 THEN fromItems ELSE toNumber(subtotalFromBody)

subtotalOf(fromItems, subtotalFromBody) ==
    IF fromItems > 0 THEN fromItems ELSE toNumber(subtotalFromBody)

discountType(discount_type) == OrElse(discount_type, Str("none")).t

\* discountAmount without the clamp to the subtotal
discountAmountUnclamped(dType, dValue, subtotal) ==
    IF dType = "percent" THEN JsMul(subtotal, JsDiv100(dValue))
    ELSE IF dType = "flat" THEN dValue
    ELSE 0

\* discountAmount with the percentage used as a factor, not divided by 100
discountAmountPercentAsFactor(dType, dValue, subtotal) ==
    LET d == IF dType = "percent" THEN JsMul(subtotal, dValue)
             ELSE IF dType = "flat" THEN dValue
             ELSE 0
    IN  IF d > subtotal THEN subtotal ELSE d

discountAmount(dType, dValue, subtotal) ==
    LET d == IF dType = "percent" THEN JsMul(subtotal, JsDiv100(dValue))
             ELSE IF dType = "flat" THEN dValue
             ELSE 0
    IN  IF d > subtotal THEN subtotal ELSE d

\* totalAmount preferring any non-zero caller total, negative ones included
totalAmountAnyCallerTotal(totalFromBody, subtotal, dAmount) ==
    LET computedTotal == Max(0, subtotal - dAmount)
    IN  IF totalFromBody # 0 THEN totalFromBody ELSE computedTotal

\* totalAmount that never takes the caller's total
totalAmountComputedOnly(totalFromBody, subtotal, dAmount) ==
    Max(0, subtotal - dAmount)

totalAmount(totalFromBody, subtotal, dAmount) ==
    LET computedTotal == Max(0, subtotal - dAmount)
    IN  IF totalFromBody > 0 THEN totalFromBody ELSE computedTotal

itemsOf(body) == IF body.items.k = "undefined" THEN <<>> ELSE body.items.a

\* the values both handlers compute from the request body
InvoiceCalc(body) ==
    LET nitems == normalizedItems(itemsOf(body))
        fromItems == subtotalFromItems(nitems)
        subtotal == subtotalOf(fromItems, body.subtotal)
        dType == discountType(body.discount_type)
        dValue == toNumber(body.discount_value)
        dAmount == discountAmount(dType, dValue, subtotal)
    IN  [normalizedItems |-> nitems,
         subtotalFromItems |-> fromItems,
         subtotal |-> subtotal,
         dType |-> dType,
         dValue |-> dValue,
         dAmount |-> dAmount,
         total_amount |-> totalAmount(toNumber(body.total_amount), subtotal, dAmount)]

\* ------------------------------------------------------------------------
\* Calendar: a date is [y, m, d]; an instant is a UTC date and an hour
\* ------------------------------------------------------------------------
Date(y, m, d) == [y |-> y, m |-> m, d |-> d]

IsLeap(y) == (y % 4 = 0 /\ y % 100 # 0) \/ y % 400 = 0

DaysInMonth(y, m) ==
    IF m = 2 THEN (IF IsLeap(y) THEN 29 ELSE 28)
    ELSE IF m \in {4, 6, 9, 11} THEN 30 ELSE 31

PrevDay(dt) ==
    IF dt.d > 1 THEN Date(dt.y, dt.m, dt.d - 1)
    ELSE IF dt.m > 1 THEN Date(dt.y, dt.m - 1, DaysInMonth(dt.y, dt.m - 1))
    ELSE Date(dt.y - 1, 12, 31)

NextDay(dt) ==
    IF dt.d < DaysInMonth(dt.y, dt.m) THEN Date(dt.y, dt.m, dt.d + 1)
    ELSE IF dt.m < 12 THEN Date(dt.y, dt.m + 1, 1)
    ELSE Date(dt.y + 1, 1, 1)

DateLT(a, b) ==
    \/ a.y < b.y
    \/ a.y = b.y /\ a.m < b.m
    \/ a.y = b.y /\ a.m = b.m /\ a.d < b.d

Instant(dt, h) == [date |-> dt, hour |-> h]

InstantLT(a, b) == DateLT(a.date, b.date) \/ (a.date = b.date /\ a.hour < b.hour)

\* ------------------------------------------------------------------------
\* Requests
\* ------------------------------------------------------------------------
Reqs == {"r1"}

MaxInvoiceId == 2

InvoiceIds == 1..MaxInvoiceId

NoCalc == [k |-> "none"]

NoRes == [status |-> 0, success |-> FALSE]

NoData == [k |-> "none"]

Idle == [route |-> "none", id |-> 0, body |-> Undefined, pc |-> "idle",
         calc |-> NoCalc, newId |-> 0, res |-> NoRes, data |-> NoData]

\* res.status(s).json({ success: ... }): the handler's one response
Respond(q, status, success) ==
    [q EXCEPT !.pc = "done", !.res = [status |-> status, success |-> success]]

updatesOf(body) ==
    IF body.inventoryUpdates.k = "array" THEN body.inventoryUpdates.a ELSE <<>>

\* the id the database gives the next invoices row
NextInvoiceId == invoice_id_seq + 1

\* ---- POST /api/invoices ----
ReceiveCreateInvoice(r, bodies) ==
    /\ req[r].pc = "idle"
    /\ \E body \in bodies :
          req' = [req EXCEPT ![r] =
                    [route |-> "POST /api/invoices", id |-> 0, body |-> body,
                     pc |-> "insert_invoice", calc |-> InvoiceCalc(body),
                     newId |-> 0, res |-> NoRes, data |-> NoData]]
    /\ UNCHANGED <<invoices, invoice_items, products, patients, appointments, env, invoice_id_seq, otherTables>>

\* the row POST inserts
NewInvoiceRow(body, c, now) ==
    [patient_id |-> body.patientId,
     appointment_id |-> body.appointmentId,
     status |-> OrElse(body.status, Str("Unpaid")).t,
     diagnostic |-> IF body.diagnostic.k = "undefined" THEN "" ELSE body.diagnostic.t,
     subtotal |-> c.subtotal,
     discount_type |-> c.dType,
     discount_value |-> c.dValue,
     discount_amount |-> c.dAmount,
     total_amount |-> c.total_amount,
     created_at |-> now]

\* after the items are stored (or there were none): the stock updates, or the response
AfterItems(q) ==
    IF Len(updatesOf(q.body)) > 0 THEN [q EXCEPT !.pc = "decrease_stock"]
    ELSE Respond(q, 201, TRUE)

\* AfterInvoiceInsert that leaves the items out and goes on to the stock updates
AfterInvoiceInsertSkipItems(q) == AfterItems(q)

\* AfterInvoiceInsert that goes on to insert the items even when there are none
AfterInvoiceInsertAlwaysItems(q) == [q EXCEPT !.pc = "insert_items"]

AfterInvoiceInsert(q) ==
    IF Len(q.calc.normalizedItems) > 0 THEN [q EXCEPT !.pc = "insert_items"]
    ELSE AfterItems(q)

ItemRows(id, nitems) ==
    [j \in 1..Len(nitems) |->
        [invoice_id |-> id, service_name |-> nitems[j].service_name,
         quantity |-> nitems[j].quantity, unit_price |-> nitems[j].unit_price]]

CreateInsertInvoice(r) ==
    /\ req[r].route = "POST /api/invoices"
    /\ req[r].pc = "insert_invoice"
    /\ \/ /\ NextInvoiceId \in InvoiceIds
          /\ invoices' = invoices @@
                (NextInvoiceId :> NewInvoiceRow(req[r].body, req[r].calc, env.now))
          /\ invoice_id_seq' = NextInvoiceId
          /\ req' = [req EXCEPT ![r] =
                       AfterInvoiceInsert([req[r] EXCEPT !.newId = NextInvoiceId])]
       \/ /\ req' = [req EXCEPT ![r] = Respond(req[r], 500, FALSE)]
          /\ UNCHANGED <<invoices, invoice_id_seq>>
    /\ UNCHANGED <<invoice_items, products, patients, appointments, env, otherTables>>

CreateInsertItems(r) ==
    /\ req[r].route = "POST /api/invoices"
    /\ req[r].pc = "insert_items"
    /\ \/ /\ req[r].newId \in DOMAIN invoices
          /\ invoice_items' = [invoice_items EXCEPT ![req[r].newId] =
                                 @ \o ItemRows(req[r].newId, req[r].calc.normalizedItems)]
          /\ req' = [req EXCEPT ![r] = AfterItems(req[r])]
       \/ /\ req' = [req EXCEPT ![r] = Respond(req[r], 500, FALSE)]
          /\ UNCHANGED invoice_items
    /\ UNCHANGED <<invoices, products, patients, appointments, env, invoice_id_seq, otherTables>>

\* rpc decrease_stock: the stock of product u.id goes down by u.quantitySold
RECURSIVE decrease_stock(_, _, _)
decrease_stock(stock, updates, failed) ==
    IF updates = <<>> THEN stock
    ELSE LET n == Len(updates)
             u == updates[n]
             rest == decrease_stock(stock, SubSeq(updates, 1, n - 1), failed)
         IN  IF n \in failed \/ u.id \notin DOMAIN rest THEN rest
             ELSE [rest EXCEPT ![u.id] = @ - u.quantitySold]

\* CreateDecreaseStock that fails the request and decreases nothing when a call fails
CreateDecreaseStockAllOrNothing(r) ==
    /\ req[r].route = "POST /api/invoices"
    /\ req[r].pc = "decrease_stock"
    /\ \E failed \in SUBSET (1..Len(updatesOf(req[r].body))) :
          IF failed = {}
          THEN /\ products' = decrease_stock(products, updatesOf(req[r].body), failed)
               /\ req' = [req EXCEPT ![r] = Respond(req[r], 201, TRUE)]
          ELSE /\ products' = products
               /\ req' = [req EXCEPT ![r] = Respond(req[r], 500, FALSE)]
    /\ UNCHANGED <<invoices, invoice_items, patients, appointments, env, invoice_id_seq,
                   otherTables>>

\* Promise.all over the decrease_stock calls: each succeeds or returns an error,
\* and the response is 201 either way
CreateDecreaseStock(r) ==
    /\ req[r].route = "POST /api/invoices"
    /\ req[r].pc = "decrease_stock"
    /\ \E failed \in SUBSET (1..Len(updatesOf(req[r].body))) :
          products' = decrease_stock(products, updatesOf(req[r].body), failed)
    /\ req' = [req EXCEPT ![r] = Respond(req[r], 201, TRUE)]
    /\ UNCHANGED <<invoices, invoice_items, patients, appointments, env, invoice_id_seq, otherTables>>

\* ---- PATCH /api/invoices/:id ----
ReceiveUpdateInvoice(r, bodies) ==
    /\ req[r].pc = "idle"
    /\ \E id \in InvoiceIds, body \in bodies :
          req' = [req EXCEPT ![r] =
                    [route |-> "PATCH /api/invoices/:id", id |-> id, body |-> body,
                     pc |-> "delete_items", calc |-> NoCalc, newId |-> 0, res |-> NoRes,
                     data |-> NoData]]
    /\ UNCHANGED <<invoices, invoice_items, products, patients, appointments, env, invoice_id_seq, otherTables>>

\* UpdateDeleteItems that goes on to the recalculation without deleting the old items
UpdateKeepItems(r) ==
    /\ req[r].route = "PATCH /api/invoices/:id"
    /\ req[r].pc = "delete_items"
    /\ \/ req' = [req EXCEPT ![r] = [req[r] EXCEPT !.pc = "update_invoice",
                                                   !.calc = InvoiceCalc(req[r].body)]]
       \/ req' = [req EXCEPT ![r] = Respond(req[r], 500, FALSE)]
    /\ UNCHANGED <<invoices, invoice_items, products, patients, appointments, env,
                   invoice_id_seq, otherTables>>

\* step 1, then the recalculation that runs before the next await
UpdateDeleteItems(r) ==
    /\ req[r].route = "PATCH /api/invoices/:id"
    /\ req[r].pc = "delete_items"
    /\ \/ /\ invoice_items' = [invoice_items EXCEPT ![req[r].id] = <<>>]
          /\ req' = [req EXCEPT ![r] = [req[r] EXCEPT !.pc = "update_invoice",
                                                      !.calc = InvoiceCalc(req[r].body)]]
       \/ /\ req' = [req EXCEPT ![r] = Respond(req[r], 500, FALSE)]
          /\ UNCHANGED invoice_items
    /\ UNCHANGED <<invoices, products, patients, appointments, env, invoice_id_seq, otherTables>>

\* the row PATCH leaves: a key whose value is undefined is not sent, so its
\* column keeps its value
UpdatedInvoiceRow(old, body, c) ==
    [old EXCEPT
        !.patient_id = IF body.patientId.k = "undefined" THEN @ ELSE body.patientId,
        !.total_amount = c.total_amount,
        !.subtotal = c.subtotal,
        !.discount_type = c.dType,
        !.discount_value = c.dValue,
        !.discount_amount = c.dAmount,
        !.status = IF body.status.k = "undefined" THEN @ ELSE body.status.t,
        !.diagnostic = IF body.diagnostic.k = "undefined" THEN @ ELSE body.diagnostic.t]

UpdateInvoiceRow(r) ==
    /\ req[r].route = "PATCH /api/invoices/:id"
    /\ req[r].pc = "update_invoice"
    /\ \/ /\ invoices' = IF req[r].id \in DOMAIN invoices
                         THEN [invoices EXCEPT ![req[r].id] =
                                 UpdatedInvoiceRow(@, req[r].body, req[r].calc)]
                         ELSE invoices
          /\ req' = [req EXCEPT ![r] = [req[r] EXCEPT !.pc = "insert_items"]]
       \/ /\ req' = [req EXCEPT ![r] = Respond(req[r], 500, FALSE)]
          /\ UNCHANGED invoices
    /\ UNCHANGED <<invoice_items, products, patients, appointments, env, invoice_id_seq, otherTables>>

UpdateInsertItems(r) ==
    /\ req[r].route = "PATCH /api/invoices/:id"
    /\ req[r].pc = "insert_items"
    /\ \/ /\ req[r].id \in DOMAIN invoices \/ req[r].calc.normalizedItems = <<>>
          /\ invoice_items' = [invoice_items EXCEPT ![req[r].id] =
                                 @ \o ItemRows(req[r].id, req[r].calc.normalizedItems)]
          /\ req' = [req EXCEPT ![r] = Respond(req[r], 200, TRUE)]
       \/ /\ req' = [req EXCEPT ![r] = Respond(req[r], 500, FALSE)]
          /\ UNCHANGED invoice_items
    /\ UNCHANGED <<invoices, products, patients, appointments, env, invoice_id_seq, otherTables>>

\* ------------------------------------------------------------------------
\* Request bodies of the invoice handlers
\* ------------------------------------------------------------------------
MaxItems == 2

RawItem(q, u, p, sn, s) ==
    [quantity |-> q, unit_price |-> u, price |-> p, service_name |-> sn, service |-> s]

ItemValues ==
    { RawItem(Num(2), Num(10), Undefined, Undefined, Undefined),
      RawItem(Undefined, Undefined, Chars(<<"1", "5">>), Undefined, Str("Massage")),
      RawItem(Num(0), Num(10), Undefined, Str("Consult"), Undefined),
      RawItem(Num(-1), Num(10), Undefined, Str("Consult"), Undefined),
      RawItem(Num(3), Num(4), Undefined, Str(""), Str("Taping")),
      RawItem(Num(1), Num(-5), Undefined, Str("Refund"), Undefined),
      RawItem(Chars(<<"a", "b", "c">>), Num(7), Undefined, Str("Tape"), Undefined),
      RawItem(Null, Undefined, Undefined, Str("Free"), Undefined) }

ItemLists == UNION { [1..n -> ItemValues] : n \in 0..MaxItems }

Body(items, dt, dv, sub, tot, status, updates) ==
    [patientId |-> Num(1), appointmentId |-> Undefined, status |-> status,
     items |-> items, inventoryUpdates |-> updates, diagnostic |-> Undefined,
     discount_type |-> dt, discount_value |-> dv,
     total_amount |-> tot, subtotal |-> sub]

\* bodies that vary what the calculation reads
MoneyBodies ==
    { Body(Arr(items), dt, dv, sub, tot, Undefined, Undefined) :
        items \in ItemLists,
        dt \in {Undefined, Str("percent"), Str("flat"), Str("bogus")},
        dv \in {Undefined, Num(10), Num(150), Num(-10)},
        sub \in {Undefined, Num(50), Num(-5)},
        tot \in {Undefined, Num(7), Num(-3)} }

\* bodies that vary the rest: no items key, a status, stock updates
OtherBodies ==
    { Body(items, Undefined, Undefined, Undefined, Undefined, status, updates) :
        items \in {Undefined, Arr(<<RawItem(Num(2), Num(10), Undefined, Undefined, Undefined)>>)},
        status \in {Undefined, Str("Paid")},
        updates \in {Undefined, Arr(<<>>),
                     Arr(<<[id |-> 1, quantitySold |-> 1]>>),
                     Arr(<<[id |-> 1, quantitySold |-> 1], [id |-> 2, quantitySold |-> 2]>>)} }

InvoiceBodies == MoneyBodies \cup OtherBodies

\* ------------------------------------------------------------------------
\* The invoice handlers, one request after another
\* ------------------------------------------------------------------------
Today == Date(2026, 11, 2)

SeedInvoice ==
    [patient_id |-> Num(1), appointment_id |-> Undefined, status |-> "Unpaid",
     diagnostic |-> "", subtotal |-> 3000, discount_type |-> "none",
     discount_value |-> 0, discount_amount |-> 0, total_amount |-> 3000,
     created_at |-> Instant(PrevDay(Today), 9)]

SeedItems ==
    <<[invoice_id |-> 1, service_name |-> "Consult", quantity |-> 100, unit_price |-> 3000]>>

Init ==
    /\ invoices = (1 :> SeedInvoice)
    /\ invoice_items = [i \in InvoiceIds |-> IF i = 1 THEN SeedItems ELSE <<>>]
    /\ products = (1 :> 5) @@ (2 :> 1)
    /\ patients = (1 :> [date_of_birth |-> Date(1986, 5, 17), created_at |-> Instant(PrevDay(Today), 9)])
    /\ appointments = <<>>
    /\ env = [now |-> Instant(Today, 12), tz |-> 0]
    /\ req = [r \in Reqs |-> Idle]
    /\ invoice_id_seq = 1
    /\ assigned_exercises = <<>>
    /\ settings = <<>>
    /\ exercises = <<>>

Next ==
    \E r \in Reqs :
        \/ ReceiveCreateInvoice(r, InvoiceBodies)
        \/ CreateInsertInvoice(r)
        \/ CreateInsertItems(r)
        \/ CreateDecreaseStock(r)
        \/ ReceiveUpdateInvoice(r, InvoiceBodies)
        \/ UpdateDeleteItems(r)
        \/ UpdateInvoiceRow(r)
        \/ UpdateInsertItems(r)

Spec == Init /\ [][Next]_vars

\* ------------------------------------------------------------------------
\* Properties of the invoice handlers
\* ------------------------------------------------------------------------
IsCreate(r) == req[r].route = "POST /api/invoices"

IsUpdate(r) == req[r].route = "PATCH /api/invoices/:id"

\* the id of the invoices row request r has written, 0 when it has written none
WrittenId(r) ==
    IF IsCreate(r) /\ req[r].newId # 0 THEN req[r].newId
    ELSE IF /\ IsUpdate(r)
            /\ req[r].pc = "insert_items" \/ (req[r].pc = "done" /\ req[r].res.success)
            /\ req[r].id \in DOMAIN invoices
         THEN req[r].id
    ELSE 0

HasWritten(r) == WrittenId(r) # 0

WrittenRow(r) == invoices[WrittenId(r)]

\* the handler has run its calculation
HasCalc(r) == req[r].calc # NoCalc

Min(a, b) == IF a <= b THEN a ELSE b

\* C1: in every invoices row, discount_amount is at most subtotal.
C1_DiscountAtMostSubtotal ==
    \A id \in DOMAIN invoices : invoices[id].discount_amount <= invoices[id].subtotal

\* a row written from a 150 percent discount, clamped to its positive subtotal
C1_Witness ==
    \E r \in Reqs :
        /\ HasWritten(r)
        /\ req[r].body.discount_type = Str("percent")
        /\ req[r].body.discount_value = Num(150)
        /\ WrittenRow(r).subtotal > 0
        /\ WrittenRow(r).discount_amount = WrittenRow(r).subtotal

\* C2: in every invoices row, total_amount is at least 0.
C2_TotalNonNegative ==
    \A id \in DOMAIN invoices : invoices[id].total_amount >= 0

\* a row written from a request that carries a negative total and a negative subtotal
C2_Witness ==
    \E r \in Reqs :
        /\ HasWritten(r)
        /\ req[r].body.total_amount = Num(-3)
        /\ req[r].body.subtotal = Num(-5)
        /\ itemsOf(req[r].body) = <<>>
        /\ WrittenRow(r).total_amount = 0

\* the sum of quantity x unit_price over the normalized items of a raw item
\* list that have a positive quantity and a non-empty label
RECURSIVE ClaimedItemSum(_, _)
ClaimedItemSum(items, j) ==
    IF j > Len(items) THEN 0
    ELSE LET it == normalizeItem(items[j], j - 1)
         IN  (IF it.quantity > 0 /\ it.service_name # ""
              THEN (it.quantity * it.unit_price) \div 100 ELSE 0)
             + ClaimedItemSum(items, j + 1)

\* C3: the subtotal a handler computes from the items is the sum of
\* quantity x unit_price over the normalized items with quantity > 0 and a
\* non-empty label.
C3_SubtotalIsItemSum ==
    \A r \in Reqs :
        HasCalc(r) =>
            req[r].calc.subtotalFromItems = ClaimedItemSum(itemsOf(req[r].body), 1)

\* a list with a kept item and an item of negative quantity
C3_Witness ==
    \E r \in Reqs :
        /\ HasCalc(r)
        /\ Len(itemsOf(req[r].body)) = 2
        /\ Len(req[r].calc.normalizedItems) = 1
        /\ \E j \in 1..2 : normalizeItem(itemsOf(req[r].body)[j], j - 1).quantity < 0
        /\ req[r].calc.subtotalFromItems > 0

\* the request carries a positive total_amount
CarriesPositiveTotal(body) ==
    body.total_amount.k = "number" /\ body.total_amount.n > 0

\* C4: a written row has total_amount = max(0, subtotal - discount_amount),
\* except that a positive total_amount of the request is stored as it is.
C4_TotalRule ==
    \A r \in Reqs :
        HasWritten(r) =>
            LET row == WrittenRow(r)
            IN  IF CarriesPositiveTotal(req[r].body)
                THEN row.total_amount = req[r].body.total_amount.n
                ELSE row.total_amount = Max(0, row.subtotal - row.discount_amount)

\* a row whose stored total is the caller's and differs from subtotal - discount
C4_Witness ==
    \E r \in Reqs :
        /\ HasWritten(r)
        /\ CarriesPositiveTotal(req[r].body)
        /\ WrittenRow(r).total_amount = 700
        /\ WrittenRow(r).subtotal - WrittenRow(r).discount_amount = 1800

\* the discount of the claim: percent, flat or nothing, then clamped
ClaimedDiscount(discount_type, value, subtotal) ==
    LET base == IF discount_type = Str("percent") THEN (subtotal * value) \div 10000
                ELSE IF discount_type = Str("flat") THEN value
                ELSE 0
    IN  Min(base, subtotal)

IsExampleBody(body) ==
    /\ body.items = Arr(<<RawItem(Num(2), Num(10), Undefined, Undefined, Undefined)>>)
    /\ body.discount_type = Str("percent")
    /\ body.discount_value = Num(10)
    /\ body.subtotal = Undefined
    /\ body.total_amount = Undefined

\* C5: the stored discount_amount is subtotal x value / 100 for "percent",
\* value for "flat", 0 otherwise, clamped to the subtotal; the items
\* [{quantity 2, unit_price 10}] with percent 10 give 20, 2 and 18.
C5_DiscountRule ==
    \A r \in Reqs :
        HasWritten(r) =>
            LET row == WrittenRow(r)
            IN  /\ row.discount_amount =
                     ClaimedDiscount(req[r].body.discount_type,
                                     toNumber(req[r].body.discount_value), row.subtotal)
                /\ IsExampleBody(req[r].body) =>
                     /\ row.subtotal = 2000
                     /\ row.discount_amount = 200
                     /\ row.total_amount = 1800

\* the example request has written its row
C5_Witness ==
    \E r \in Reqs :
        /\ HasWritten(r)
        /\ IsExampleBody(req[r].body)
        /\ WrittenRow(r).discount_amount = 200

\* C6 as stated: the caller's subtotal is stored if and only if the item sum
\* is zero; a non-zero item sum is stored itself.
C6_Original ==
    \A r \in Reqs :
        HasWritten(r) =>
            IF req[r].calc.subtotalFromItems = 0
            THEN WrittenRow(r).subtotal = toNumber(req[r].body.subtotal)
            ELSE WrittenRow(r).subtotal = req[r].calc.subtotalFromItems

\* C6 amended: a positive item sum is stored itself; an item sum that is zero
\* or negative gives way to the caller's subtotal (0 when there is none).
C6_SubtotalFallback ==
    \A r \in Reqs :
        HasWritten(r) =>
            IF ClaimedItemSum(itemsOf(req[r].body), 1) > 0
            THEN WrittenRow(r).subtotal = ClaimedItemSum(itemsOf(req[r].body), 1)
            ELSE WrittenRow(r).subtotal = toNumber(req[r].body.subtotal)

\* a negative item sum, and the caller's subtotal stored
C6_Witness ==
    \E r \in Reqs :
        /\ HasWritten(r)
        /\ req[r].calc.subtotalFromItems < 0
        /\ req[r].body.subtotal = Num(50)
        /\ WrittenRow(r).subtotal = 5000

NoItems(body) == itemsOf(body) = <<>>

\* an error response that does not come from a failed database operation
RejectedAsBadInput(r) ==
    req[r].pc = "done" /\ ~req[r].res.success /\ req[r].res.status # 500

\* C7 as stated: no items and no caller total: subtotal 0 and total 0 are
\* stored, and the request is not answered with an error.
C7_Original ==
    \A r \in Reqs :
        (req[r].pc # "idle" /\ NoItems(req[r].body)
            /\ req[r].body.total_amount = Undefined) =>
            /\ ~RejectedAsBadInput(r)
            /\ HasWritten(r) =>
                 WrittenRow(r).subtotal = 0 /\ WrittenRow(r).total_amount = 0

\* C7 amended: no items, no caller total, no caller subtotal and no negative
\* discount_value: subtotal 0 and total 0 are stored, the only error answer
\* is the 500 of a failed database operation, and a create whose row was
\* inserted answers 201.
C7_EmptyInvoice ==
    \A r \in Reqs :
        (req[r].pc # "idle" /\ NoItems(req[r].body)
            /\ req[r].body.total_amount = Undefined
            /\ req[r].body.subtotal = Undefined
            /\ toNumber(req[r].body.discount_value) >= 0) =>
            /\ ~RejectedAsBadInput(r)
            /\ HasWritten(r) =>
                 WrittenRow(r).subtotal = 0 /\ WrittenRow(r).total_amount = 0
            /\ (IsCreate(r) /\ req[r].newId # 0 /\ req[r].pc = "done") =>
                 req[r].res = [status |-> 201, success |-> TRUE]

\* an empty request with a flat discount, answered with success
C7_Witness ==
    \E r \in Reqs :
        /\ req[r].pc = "done" /\ req[r].res.success
        /\ HasWritten(r)
        /\ NoItems(req[r].body)
        /\ req[r].body.total_amount = Undefined
        /\ req[r].body.subtotal = Undefined
        /\ req[r].body.discount_type = Str("flat")
        /\ req[r].body.discount_value = Num(10)
        /\ WrittenRow(r).total_amount = 0

Missing(v) == v.k \in {"undefined", "null"}

ClaimedQuantity(item) == IF Missing(item.quantity) THEN 100 ELSE toNumber(item.quantity)

ClaimedPrice(item) ==
    IF ~Missing(item.unit_price) THEN toNumber(item.unit_price)
    ELSE IF ~Missing(item.price) THEN toNumber(item.price)
    ELSE 0

\* the label the request gives the item, "" when it gives none
GivenLabel(item) ==
    IF Truthy(item.service_name) THEN item.service_name.t
    ELSE IF Truthy(item.service) THEN item.service.t
    ELSE ""

KeptAsStated(item) == ClaimedQuantity(item) > 0 /\ GivenLabel(item) # ""

KeptByQuantity(item) == ClaimedQuantity(item) > 0

LabelOrPosition(item, j) ==
    IF GivenLabel(item) # "" THEN GivenLabel(item) ELSE "Item " \o ToString(j)

\* the items kept, in order: as the claim states them (an item without a
\* label dropped), or by quantity alone with a label made from the position
RECURSIVE ClaimedItems(_, _, _)
ClaimedItems(items, j, asStated) ==
    IF j > Len(items) THEN <<>>
    ELSE (IF (IF asStated THEN KeptAsStated(items[j]) ELSE KeptByQuantity(items[j]))
          THEN <<[service_name |-> IF asStated THEN GivenLabel(items[j])
                                   ELSE LabelOrPosition(items[j], j),
                  quantity |-> ClaimedQuantity(items[j]),
                  unit_price |-> ClaimedPrice(items[j])]>>
          ELSE <<>>)
         \o ClaimedItems(items, j + 1, asStated)

\* the rows invoice_items holds for the invoice of request r once r has
\* stored its items
StoredItems(r) ==
    [j \in 1..Len(invoice_items[WrittenId(r)]) |->
        [service_name |-> invoice_items[WrittenId(r)][j].service_name,
         quantity |-> invoice_items[WrittenId(r)][j].quantity,
         unit_price |-> invoice_items[WrittenId(r)][j].unit_price]]

\* request r has stored its items and answered
ItemsStored(r) ==
    /\ HasWritten(r)
    /\ req[r].pc = "done" /\ req[r].res.success

\* C8 as stated: missing quantity 1, missing price 0; an item is dropped from
\* the subtotal and from invoice_items exactly when its quantity is not
\* positive or its label is empty.
C8_Original ==
    \A r \in Reqs :
        /\ HasCalc(r) =>
             req[r].calc.normalizedItems =
                ClaimedItems(itemsOf(req[r].body), 1, TRUE)
        /\ ItemsStored(r) =>
             StoredItems(r) =
                ClaimedItems(itemsOf(req[r].body), 1, TRUE)

\* C8 amended: missing quantity 1, missing price 0; an item without a label
\* is given the label "Item <position>" and kept; an item is dropped from the
\* subtotal and from invoice_items exactly when its quantity is not positive.
C8_Normalization ==
    \A r \in Reqs :
        /\ HasCalc(r) =>
             req[r].calc.normalizedItems =
                ClaimedItems(itemsOf(req[r].body), 1, FALSE)
        /\ ItemsStored(r) =>
             StoredItems(r) =
                ClaimedItems(itemsOf(req[r].body), 1, FALSE)

\* an item without a label stored as "Item 2", after an item of quantity 0
\* was dropped
C8_Witness ==
    \E r \in Reqs :
        /\ ItemsStored(r)
        /\ Len(itemsOf(req[r].body)) = 2
        /\ ClaimedQuantity(itemsOf(req[r].body)[1]) = 0
        /\ GivenLabel(itemsOf(req[r].body)[2]) = ""
        /\ StoredItems(r) = <<[service_name |-> "Item 2", quantity |-> 200, unit_price |-> 1000]>>

\* ------------------------------------------------------------------------
\* GET /api/dashboard/advanced-stats
\* ------------------------------------------------------------------------
\* the nine reads of the Promise.all, by the name of their result
Reads ==
    {"revenueToday", "appointmentsToday", "newPatientsToday", "cancellationsToday",
     "todaysSchedule", "allPatientsDob", "weeklyAppointments", "revenueYesterday",
     "appointmentsYesterday"}

todayStart(now) == Instant(now.date, 0)

todayEnd(now) == Instant(NextDay(now.date), 0)

yesterdayStart(now) == Instant(PrevDay(now.date), 0)

\* .gte(column, from).lt(column, to)
Between(t, from, to) == ~InstantLT(t, from) /\ InstantLT(t, to)

RECURSIVE Ascending(_)
Ascending(S) ==
    IF S = {} THEN <<>>
    ELSE LET m == CHOOSE x \in S : \A y \in S : x <= y
         IN  <<m>> \o Ascending(S \ {m})

\* the rows of a table, by id
RowsOf(table) ==
    LET ids == Ascending(DOMAIN table) IN [j \in 1..Len(ids) |-> table[ids[j]]]

\* from invoices select total_amount where status = 'Paid' and created_at in [from, to)
PaidInvoices(from, to) ==
    SelectSeq(RowsOf(invoices),
              LAMBDA row : row.status = "Paid" /\ Between(row.created_at, from, to))

\* a read's data, or [] when it returned an error: (res.data || [])
DataOrEmpty(failed, read, data) == IF read \in failed THEN <<>> ELSE data

\* a read's count, or 0 when it returned an error: (res.count || 0)
CountOrZero(failed, read, count) == IF read \in failed THEN 0 ELSE count

\* reduce((sum, inv) => sum + (inv.total_amount || 0), 0)
RECURSIVE SumTotals(_)
SumTotals(rows) ==
    IF rows = <<>> THEN 0
    ELSE SumTotals(SubSeq(rows, 1, Len(rows) - 1)) + rows[Len(rows)].total_amount

\* the trend as the fraction num / den
revenueTrendOf(todaysRevenue, yesterdaysRevenue) ==
    IF yesterdaysRevenue > 0
    THEN [num |-> (todaysRevenue - yesterdaysRevenue) * 100, den |-> yesterdaysRevenue]
    ELSE IF todaysRevenue > 0 THEN [num |-> 100, den |-> 1]
    ELSE [num |-> 0, den |-> 1]

\* toFixed(0): the nearest integer, a half away from zero
toFixed0(f) ==
    LET a == IF f.num < 0 THEN -f.num ELSE f.num
        q == (2 * a + f.den) \div (2 * f.den)
    IN  IF f.num < 0 THEN -q ELSE q

\* getFullYear, getMonth, getDate: the calendar date of an instant in the
\* server's time zone (tz hours ahead of UTC)
LocalDate(t, tz) ==
    IF t.hour + tz < 0 THEN PrevDay(t.date)
    ELSE IF t.hour + tz >= 24 THEN NextDay(t.date)
    ELSE t.date

\* new Date("YYYY-MM-DD"): a date-only string is midnight UTC of that date
ParseDate(dob) == Instant(dob, 0)

ageOf(dob, now, tz) ==
    LET birth == LocalDate(ParseDate(dob), tz)
        today == LocalDate(now, tz)
        age == today.y - birth.y
        monthDifference == today.m - birth.m
    IN  IF monthDifference < 0 \/ (monthDifference = 0 /\ today.d < birth.d)
        THEN age - 1 ELSE age

NoDob == [k |-> "null"]

\* the bucket of one patient row: 0 when it has no date_of_birth
ageGroupOf(p, now, tz) ==
    IF p.date_of_birth = NoDob THEN 0
    ELSE LET age == ageOf(p.date_of_birth, now, tz)
         IN  IF age < 18 THEN 1
             ELSE IF age >= 18 /\ age <= 30 THEN 2
             ELSE IF age >= 31 /\ age <= 50 THEN 3
             ELSE 4

\* [under18, 18-30, 31-50, over50] over the rows read
ageGroups(patientDobs, now, tz) ==
    [g \in 1..4 |->
        Cardinality({j \in 1..Len(patientDobs) : ageGroupOf(patientDobs[j], now, tz) = g})]

RECURSIVE InsertByStart(_, _)
InsertByStart(row, sorted) ==
    IF sorted = <<>> THEN <<row>>
    ELSE IF InstantLT(row.start_time, Head(sorted).start_time) THEN <<row>> \o sorted
    ELSE <<Head(sorted)>> \o InsertByStart(row, Tail(sorted))

\* .order('start_time', { ascending: true })
RECURSIVE OrderByStart(_)
OrderByStart(rows) ==
    IF rows = <<>> THEN <<>>
    ELSE InsertByStart(rows[Len(rows)], OrderByStart(SubSeq(rows, 1, Len(rows) - 1)))

AppointmentsIn(from, to) ==
    SelectSeq(RowsOf(appointments), LAMBDA a : Between(a.start_time, from, to))

\* rpc get_daily_appointment_counts: one row per day with appointments
DailyAppointmentCounts ==
    LET days == {appointments[i].start_time.date : i \in DOMAIN appointments}
    IN  {[day |-> d,
          count |-> Cardinality({i \in DOMAIN appointments :
                                    appointments[i].start_time.date = d})] : d \in days}

ReceiveDashboard(r) ==
    /\ req[r].pc = "idle"
    /\ req' = [req EXCEPT ![r] =
                 [route |-> "GET /api/dashboard/advanced-stats", id |-> 0,
                  body |-> Undefined, pc |-> "reads",
                  calc |-> [todayStart |-> todayStart(env.now),
                            todayEnd |-> todayEnd(env.now),
                            yesterdayStart |-> yesterdayStart(env.now)],
                  newId |-> 0, res |-> NoRes, data |-> NoData]]
    /\ UNCHANGED <<invoices, invoice_items, products, patients, appointments, env, invoice_id_seq, otherTables>>

\* the handler's locals after await Promise.all: the results (which reads
\* returned an error) and what lines 232-257 compute from them
DashboardLocals(w, failed) ==
    LET todaysRevenue ==
            SumTotals(DataOrEmpty(failed, "revenueToday",
                                  PaidInvoices(w.todayStart, w.todayEnd)))
        yesterdaysRevenue ==
            SumTotals(DataOrEmpty(failed, "revenueYesterday",
                                  PaidInvoices(w.yesterdayStart, w.todayStart)))
        appointmentsToday ==
            CountOrZero(failed, "appointmentsToday",
                        Len(AppointmentsIn(w.todayStart, w.todayEnd)))
        appointmentsYesterday ==
            CountOrZero(failed, "appointmentsYesterday",
                        Len(AppointmentsIn(w.yesterdayStart, w.todayStart)))
        patientDobs == DataOrEmpty(failed, "allPatientsDob", RowsOf(patients))
    IN  [todayStart |-> w.todayStart,
         todayEnd |-> w.todayEnd,
         yesterdayStart |-> w.yesterdayStart,
         failed |-> failed,
         todaysRevenue |-> todaysRevenue,
         yesterdaysRevenue |-> yesterdaysRevenue,
         appointmentsToday |-> appointmentsToday,
         appointmentsYesterday |-> appointmentsYesterday,
         revenueTrend |-> revenueTrendOf(todaysRevenue, yesterdaysRevenue),
         appointmentTrend |-> appointmentsToday - appointmentsYesterday,
         newPatientsToday |->
            CountOrZero(failed, "newPatientsToday",
                        Cardinality({i \in DOMAIN patients :
                            Between(patients[i].created_at, w.todayStart, w.todayEnd)})),
         ageGroups |-> ageGroups(patientDobs, env.now, env.tz)]

\* the stats object of the response
DashboardStats(l) ==
    [todaysRevenue |-> l.todaysRevenue,
     appointmentsToday |-> l.appointmentsToday,
     newPatientsToday |-> l.newPatientsToday,
     cancellationsToday |->
        CountOrZero(l.failed, "cancellationsToday",
                    Len(SelectSeq(AppointmentsIn(l.todayStart, l.todayEnd),
                                  LAMBDA a : a.status = "Cancelled"))),
     trends |-> [revenue |-> toFixed0(l.revenueTrend),
                 appointments |-> l.appointmentTrend,
                 newPatients |-> l.newPatientsToday],
     todaysSchedule |->
        DataOrEmpty(l.failed, "todaysSchedule",
                    OrderByStart(AppointmentsIn(l.todayStart, l.todayEnd))),
     ageDemographics |-> l.ageGroups,
     weeklyAppointments |->
        IF "weeklyAppointments" \in l.failed THEN {} ELSE DailyAppointmentCounts]

\* await Promise.all([...]): every read resolves, with its rows or with an
\* error; no read rejects, so the handler goes on to build and send the stats
DashboardReads(r) ==
    /\ req[r].route = "GET /api/dashboard/advanced-stats"
    /\ req[r].pc = "reads"
    /\ \E failed \in SUBSET Reads :
          req' = [req EXCEPT ![r] =
                    [Respond(req[r], 200, TRUE) EXCEPT
                        !.calc = DashboardLocals(req[r].calc, failed),
                        !.data = DashboardStats(DashboardLocals(req[r].calc, failed))]]
    /\ UNCHANGED <<invoices, invoice_items, products, patients, appointments, env, invoice_id_seq, otherTables>>

\* ------------------------------------------------------------------------
\* The dashboard over a database drawn from small tables
\* ------------------------------------------------------------------------
MaxPatients == 2

MaxAppointments == 2

InvoiceRow(status, created_at, total) ==
    [patient_id |-> Num(1), appointment_id |-> Undefined, status |-> status,
     diagnostic |-> "", subtotal |-> total, discount_type |-> "none",
     discount_value |-> 0, discount_amount |-> 0, total_amount |-> total,
     created_at |-> created_at]

DashboardInvoiceRows ==
    { InvoiceRow("Paid", Instant(Today, 0), 200),
      InvoiceRow("Paid", Instant(Today, 1), 100),
      InvoiceRow("Unpaid", Instant(Today, 1), 200),
      InvoiceRow("Paid", Instant(PrevDay(Today), 23), 200),
      InvoiceRow("Paid", Instant(PrevDay(Today), 9), 600),
      InvoiceRow("Paid", Instant(PrevDay(PrevDay(Today)), 23), 200) }

PatientRow(dob, created_at) == [date_of_birth |-> dob, created_at |-> created_at]

DashboardPatientRows ==
    { PatientRow(NoDob, Instant(Today, 1)),
      PatientRow(Date(2008, 11, 1), Instant(PrevDay(Today), 9)),
      PatientRow(Date(2008, 11, 2), Instant(PrevDay(Today), 9)),
      PatientRow(Date(2008, 11, 3), Instant(PrevDay(Today), 9)),
      PatientRow(Date(1995, 11, 4), Instant(PrevDay(Today), 9)),
      PatientRow(Date(1975, 5, 17), Instant(Today, 1)) }

AppointmentRow(start_time, status) == [start_time |-> start_time, status |-> status]

DashboardAppointmentRows ==
    { AppointmentRow(Instant(Today, 3), "Scheduled"),
      AppointmentRow(Instant(Today, 1), "Cancelled"),
      AppointmentRow(Instant(PrevDay(Today), 3), "Completed") }

TablesOf(rows, n) == UNION { [1..k -> rows] : k \in 0..n }

\* the server's clock and time zone: early and late in the UTC day, behind
\* UTC, at UTC and ahead of UTC
Envs == { [now |-> Instant(Today, h), tz |-> z] : h \in {2, 22}, z \in {-5, 0, 7} }

\* one table varies at a time
InitDashboard ==
    /\ env \in Envs
    /\ \/ /\ invoices \in TablesOf(DashboardInvoiceRows, MaxInvoiceId)
          /\ patients = <<PatientRow(Date(1975, 5, 17), Instant(Today, 1))>>
          /\ appointments = <<>>
       \/ /\ invoices = <<InvoiceRow("Paid", Instant(Today, 0), 200)>>
          /\ patients \in TablesOf(DashboardPatientRows, MaxPatients)
          /\ appointments = <<>>
       \/ /\ invoices = <<InvoiceRow("Paid", Instant(Today, 0), 200)>>
          /\ patients = <<PatientRow(Date(1975, 5, 17), Instant(Today, 1))>>
          /\ appointments \in TablesOf(DashboardAppointmentRows, MaxAppointments)
    /\ invoice_items = [i \in InvoiceIds |-> <<>>]
    /\ products = (1 :> 5) @@ (2 :> 1)
    /\ req = [r \in Reqs |-> Idle]
    /\ invoice_id_seq = Len(invoices)
    /\ assigned_exercises = <<>>
    /\ settings = <<>>
    /\ exercises = <<>>

NextDashboard ==
    \E r \in Reqs :
        \/ ReceiveDashboard(r)
        \/ DashboardReads(r)

SpecDashboard == InitDashboard /\ [][NextDashboard]_vars

\* ------------------------------------------------------------------------
\* Properties of the dashboard
\* ------------------------------------------------------------------------
DashboardAnswered(r) ==
    /\ req[r].route = "GET /api/dashboard/advanced-stats"
    /\ req[r].pc = "done"
    /\ req[r].res.success

\* the sum of total_amount of the Paid invoices created on UTC day `day`
RECURSIVE PaidRevenueOn(_, _)
PaidRevenueOn(day, ids) ==
    IF ids = {} THEN 0
    ELSE LET i == CHOOSE x \in ids : TRUE
         IN  (IF invoices[i].status = "Paid" /\ invoices[i].created_at.date = day
              THEN invoices[i].total_amount ELSE 0)
             + PaidRevenueOn(day, ids \ {i})

\* the trend f is the one stated for today's revenue t and yesterday's y
IsStatedTrend(f, t, y) ==
    /\ y > 0 => f.num * y = (t - y) * 100 * f.den
    /\ (y = 0 /\ t > 0) => f.num = 100 * f.den
    /\ (y = 0 /\ t = 0) => f.num = 0

\* C9: the revenue trend of an answered dashboard request is
\* (today - yesterday) / yesterday x 100 when yesterday's revenue is positive,
\* 100 when yesterday's is 0 and today's is positive, 0 when both are 0, each
\* revenue being the sum of total_amount of the Paid invoices of that day.
C9_RevenueTrend ==
    \A r \in Reqs :
        DashboardAnswered(r) =>
            /\ IsStatedTrend(req[r].calc.revenueTrend,
                             PaidRevenueOn(env.now.date, DOMAIN invoices),
                             PaidRevenueOn(PrevDay(env.now.date), DOMAIN invoices))
            /\ req[r].data.todaysRevenue = PaidRevenueOn(env.now.date, DOMAIN invoices)

PatientsWithDob == {i \in DOMAIN patients : patients[i].date_of_birth # NoDob}

\* C10: in an answered dashboard request, a patient born exactly 18 years
\* before today (the server's calendar date) is counted in 18-30, a patient
\* one day short of the 18th birthday in <18, and the four counts sum to the
\* number of patients with a birth date.
C10_AgeBuckets ==
    \A r \in Reqs :
        DashboardAnswered(r) =>
            LET today == LocalDate(env.now, env.tz)
                eighteen == Date(today.y - 18, today.m, today.d)
                counts == req[r].data.ageDemographics
            IN  /\ counts[2] >= Cardinality({i \in PatientsWithDob :
                                    patients[i].date_of_birth = eighteen})
                /\ counts[1] >= Cardinality({i \in PatientsWithDob :
                                    patients[i].date_of_birth = NextDay(eighteen)})
                /\ counts[1] + counts[2] + counts[3] + counts[4]
                     = Cardinality(PatientsWithDob)

\* C11: in GET /api/dashboard/advanced-stats, when one of the nine reads
\* returns an error the request is answered with an error and no stats.
C11_ReadFailureIsFatal ==
    \A r \in DOMAIN req :
        (/\ req[r].route = "GET /api/dashboard/advanced-stats"
         /\ req[r].pc = "done"
         /\ req[r].calc.failed # {}) =>
            /\ ~req[r].res.success
            /\ req[r].res.status = 500
            /\ req[r].data = NoData

\* ------------------------------------------------------------------------
\* The patient portal: authenticatePatient and the routes behind it
\* ------------------------------------------------------------------------
\* req.headers.authorization: absent, or the header's text as the words that
\* split(' ') gives ("Bearer abc" is <<"Bearer", "abc">>, "Bearer " is
\* <<"Bearer", "">>, "Bearer" is <<"Bearer">>)
NoHeader == <<>>

\* !authHeader || !authHeader.startsWith('Bearer ')
tokenRequired(authHeader) ==
    authHeader = NoHeader \/ ~(Len(authHeader) >= 2 /\ authHeader[1] = "Bearer")

\* authHeader.split(' ')[1]
tokenOf(authHeader) == authHeader[2]

NoUser == [k |-> "null"]

User(id) == [k |-> "user", id |-> id]

\* the identity provider: the tokens it knows, and the user of each
TokenUsers == ("t1" :> User("u1")) @@ ("t2" :> User("u2")) @@ ("t3" :> User("u3"))

\* supabase.auth.getUser(token): what the call can resolve to.  An unknown or
\* expired token gives an error; so can any call (the provider is down); a
\* known token gives its user; a result with neither user nor error is what
\* the handler's test of !user allows for.
getUserResults(token) ==
    {[user |-> NoUser, error |-> TRUE], [user |-> NoUser, error |-> FALSE]}
    \cup (IF token \in DOMAIN TokenUsers
          THEN {[user |-> TokenUsers[token], error |-> FALSE]} ELSE {})

\* authenticatePatient with only the error of getUser tested
tokenRejectedOnErrorOnly(result) == result.error

\* error || !user
tokenRejected(result) == result.error \/ result.user = NoUser

\* a request to a route behind authenticatePatient, as it arrives
PortalRequest(route, id, authHeader) ==
    [route |-> route, id |-> id, body |-> Undefined, pc |-> "authenticate",
     calc |-> NoCalc, newId |-> 0, res |-> NoRes, data |-> NoData,
     headers |-> [authorization |-> authHeader],
     user |-> NoUser,      \* req.user
     token |-> "",
     issued |-> <<>>]      \* the database operations issued for the request so far

PortalRoutes == {"GET /api/portal/dashboard", "PATCH /api/assigned-exercises/:id/complete"}

\* the first position of the route handler that next() runs
HandlerEntry(route) ==
    IF route = "GET /api/portal/dashboard" THEN "patient_lookup" ELSE "fetch_current"

\* next(): the route handler runs up to its first await; the completion
\* handler reads the clock there: new Date().toISOString().split('T')[0]
HandlerStarts(q, now) ==
    [q EXCEPT !.pc = HandlerEntry(q.route),
              !.calc = IF q.route = "PATCH /api/assigned-exercises/:id/complete"
                       THEN [today |-> now.date, completedDates |-> Null]
                       ELSE @]

\* authenticatePatient up to its await: the test of the header
authenticatePatient(r) ==
    /\ req[r].route \in PortalRoutes
    /\ req[r].pc = "authenticate"
    /\ req' = [req EXCEPT ![r] =
                 IF tokenRequired(req[r].headers.authorization)
                 THEN Respond(req[r], 401, FALSE)
                 ELSE [req[r] EXCEPT !.pc = "getUser",
                                     !.token = tokenOf(req[r].headers.authorization)]]
    /\ UNCHANGED <<invoices, invoice_items, products, patients, appointments, env,
                   invoice_id_seq, otherTables>>

\* authenticatePatient after its await: 401, or req.user = user and next()
getUserReturns(r) ==
    /\ req[r].route \in PortalRoutes
    /\ req[r].pc = "getUser"
    /\ \E result \in getUserResults(req[r].token) :
          req' = [req EXCEPT ![r] =
                    IF tokenRejected(result)
                    THEN Respond(req[r], 401, FALSE)
                    ELSE HandlerStarts([req[r] EXCEPT !.user = result.user], env.now)]
    /\ UNCHANGED <<invoices, invoice_items, products, patients, appointments, env,
                   invoice_id_seq, otherTables>>

\* ---- GET /api/portal/dashboard ----
RECURSIVE Reverse(_)
Reverse(s) == IF s = <<>> THEN <<>> ELSE Reverse(Tail(s)) \o <<Head(s)>>

\* the result of a supabase call: { data, error }
Failed == [error |-> TRUE, data |-> Null]

Ok(data) == [error |-> FALSE, data |-> data]

Pending == [k |-> "pending"]

\* from patients select id, full_name where auth_user_id = authId, .single():
\* an error unless exactly one row matches
portalPatient(pats, authId) ==
    LET ids == {i \in DOMAIN pats : pats[i].auth_user_id = authId}
    IN  IF Cardinality(ids) = 1
        THEN LET i == CHOOSE x \in ids : TRUE
             IN  Ok([id |-> i, full_name |-> pats[i].full_name])
        ELSE Failed

\* portalAppointments without .eq('patient_id', patientId)
portalAppointmentsOfAll(appts, patientId) ==
    LET rows == RowsOf(appts)
    IN  Reverse(OrderByStart([j \in 1..Len(rows) |->
            [start_time |-> rows[j].start_time, status |-> rows[j].status]]))

\* from appointments select start_time, status where patient_id = patientId
\* order by start_time descending
portalAppointments(appts, patientId) ==
    LET mine == SelectSeq(RowsOf(appts), LAMBDA a : a.patient_id = patientId)
    IN  Reverse(OrderByStart([j \in 1..Len(mine) |->
            [start_time |-> mine[j].start_time, status |-> mine[j].status]]))

\* from assigned_exercises select *, exercises(title) where patient_id = patientId
portalExercises(assigned, catalog, patientId) ==
    LET ids == SelectSeq(Ascending(DOMAIN assigned),
                         LAMBDA i : assigned[i].patient_id = patientId)
    IN  [j \in 1..Len(ids) |->
            [id |-> ids[j],
             patient_id |-> assigned[ids[j]].patient_id,
             exercise_id |-> assigned[ids[j]].exercise_id,
             completed_dates |-> assigned[ids[j]].completed_dates,
             exercises |-> IF assigned[ids[j]].exercise_id \in DOMAIN catalog
                           THEN catalog[assigned[ids[j]].exercise_id] ELSE Null]]

\* from settings select clinic_name where id = 1, .single()
portalClinic(sett) == IF 1 \in DOMAIN sett THEN Ok(sett[1]) ELSE Failed

PortalReads == {"appointments", "assigned_exercises", "settings"}

\* what a read of the Promise.all resolves to when the database answers it
PortalRead(read, patientId) ==
    IF read = "appointments" THEN Ok(portalAppointments(appointments, patientId))
    ELSE IF read = "assigned_exercises"
         THEN Ok(portalExercises(assigned_exercises, exercises, patientId))
    ELSE portalClinic(settings)

\* the test of the results with the clinic settings left out
portalReadsFailedWithoutClinic(results) ==
    results["appointments"].error \/ results["assigned_exercises"].error

\* appointmentsRes.error || assignedExercisesRes.error || clinicSettingsRes.error
portalReadsFailed(results) ==
    \/ results["appointments"].error
    \/ results["assigned_exercises"].error
    \/ results["settings"].error

\* responseData
portalResponseData(patient, results, now) ==
    LET allAppointments == results["appointments"].data
        upcomingAppointments ==
            OrderByStart(SelectSeq(allAppointments,
                                   LAMBDA a : ~InstantLT(a.start_time, now)))
        pastAppointments ==
            SelectSeq(allAppointments, LAMBDA a : InstantLT(a.start_time, now))
    IN  [profile |-> patient,
         nextAppointment |-> IF upcomingAppointments # <<>>
                             THEN Head(upcomingAppointments) ELSE Null,
         appointmentHistory |-> pastAppointments,
         exercises |-> results["assigned_exercises"].data,
         clinic |-> results["settings"].data]

\* the handler after await Promise.all
PortalAnswer(q, now) ==
    IF portalReadsFailed(q.calc.results) THEN Respond(q, 500, FALSE)
    ELSE [Respond(q, 200, TRUE) EXCEPT
            !.data = portalResponseData(q.calc.patient, q.calc.results, now)]

ReceivePortalDashboard(r, authHeaders) ==
    /\ req[r].pc = "idle"
    /\ \E h \in authHeaders :
          req' = [req EXCEPT ![r] = PortalRequest("GET /api/portal/dashboard", 0, h)]
    /\ UNCHANGED <<invoices, invoice_items, products, patients, appointments, env,
                   invoice_id_seq, otherTables>>

\* the lookup of the patient of req.user, then the three reads are issued
PortalPatientLookup(r) ==
    /\ req[r].route = "GET /api/portal/dashboard"
    /\ req[r].pc = "patient_lookup"
    /\ \E failed \in BOOLEAN :
          LET patientRes == IF failed THEN Failed
                            ELSE portalPatient(patients, req[r].user.id)
          IN
          req' = [req EXCEPT ![r] =
                    IF patientRes.error \/ patientRes.data = Null
                    THEN [Respond(req[r], 404, FALSE) EXCEPT
                            !.issued = @ \o <<"patients">>]
                    ELSE [req[r] EXCEPT
                            !.pc = "reads",
                            !.calc = [patient |-> patientRes.data,
                                      results |-> [read \in PortalReads |-> Pending],
                                      completed |-> <<>>],
                            !.issued = @ \o <<"patients", "appointments",
                                              "assigned_exercises", "settings">>]]
    /\ UNCHANGED <<invoices, invoice_items, products, patients, appointments, env,
                   invoice_id_seq, otherTables>>

\* one of the three reads resolves, with rows or with an error; when it is the
\* last, Promise.all resolves and the handler answers
PortalReadCompletes(r) ==
    /\ req[r].route = "GET /api/portal/dashboard"
    /\ req[r].pc = "reads"
    /\ \E read \in {x \in PortalReads : req[r].calc.results[x] = Pending} :
          \E failed \in BOOLEAN :
             LET result == IF failed THEN Failed
                           ELSE PortalRead(read, req[r].calc.patient.id)
                 q == [req[r] EXCEPT !.calc.results[read] = result,
                                     !.calc.completed = @ \o <<read>>]
             IN  req' = [req EXCEPT ![r] =
                           IF \E x \in PortalReads : q.calc.results[x] = Pending
                           THEN q ELSE PortalAnswer(q, env.now)]
    /\ UNCHANGED <<invoices, invoice_items, products, patients, appointments, env,
                   invoice_id_seq, otherTables>>

\* ---- PATCH /api/assigned-exercises/:id/complete ----
MaxAssignments == 2

AssignmentIds == 1..MaxAssignments

ReceiveCompleteExercise(r, authHeaders) ==
    /\ req[r].pc = "idle"
    /\ \E h \in authHeaders, id \in AssignmentIds :
          req' = [req EXCEPT ![r] =
                    PortalRequest("PATCH /api/assigned-exercises/:id/complete", id, h)]
    /\ UNCHANGED <<invoices, invoice_items, products, patients, appointments, env,
                   invoice_id_seq, otherTables>>

\* from assigned_exercises select completed_dates where id = assignmentId, .single()
currentAssignment(assigned, assignmentId) ==
    IF assignmentId \in DOMAIN assigned
    THEN Ok([completed_dates |-> assigned[assignmentId].completed_dates])
    ELSE Failed

\* completedDatesWith that pushes today without looking for it
completedDatesAlwaysPush(current, today) ==
    Arr(Append(IF current.completed_dates = Null THEN <<>>
               ELSE current.completed_dates.a, today))

\* current.completed_dates || [], with today pushed when it is not included
completedDatesWith(current, today) ==
    LET completedDates == IF current.completed_dates = Null THEN <<>>
                          ELSE current.completed_dates.a
    IN  IF \E j \in 1..Len(completedDates) : completedDates[j] = today
        THEN Arr(completedDates) ELSE Arr(Append(completedDates, today))

\* step 1 and 2: read the completed dates and add today
CompleteFetchCurrent(r) ==
    /\ req[r].route = "PATCH /api/assigned-exercises/:id/complete"
    /\ req[r].pc = "fetch_current"
    /\ \E failed \in BOOLEAN :
          LET current == IF failed THEN Failed
                         ELSE currentAssignment(assigned_exercises, req[r].id)
          IN
          req' = [req EXCEPT ![r] =
                    IF current.error
                    THEN [Respond(req[r], 500, FALSE) EXCEPT
                            !.issued = @ \o <<"assigned_exercises">>]
                    ELSE [req[r] EXCEPT
                            !.pc = "update_exercise",
                            !.calc.completedDates =
                                completedDatesWith(current.data, req[r].calc.today),
                            !.issued = @ \o <<"assigned_exercises">>]]
    /\ UNCHANGED <<invoices, invoice_items, products, patients, appointments, env,
                   invoice_id_seq, otherTables>>

\* step 3: update the record, .select().single()
CompleteUpdate(r) ==
    /\ req[r].route = "PATCH /api/assigned-exercises/:id/complete"
    /\ req[r].pc = "update_exercise"
    /\ \/ /\ req[r].id \in DOMAIN assigned_exercises
          /\ assigned_exercises' =
                [assigned_exercises EXCEPT
                    ![req[r].id].completed_dates = req[r].calc.completedDates]
          /\ req' = [req EXCEPT ![r] =
                       [Respond(req[r], 200, TRUE) EXCEPT
                          !.data = [assigned_exercises[req[r].id] EXCEPT
                                      !.completed_dates = req[r].calc.completedDates],
                          !.issued = @ \o <<"assigned_exercises">>]]
       \/ /\ req' = [req EXCEPT ![r] =
                       [Respond(req[r], 500, FALSE) EXCEPT
                          !.issued = @ \o <<"assigned_exercises">>]]
          /\ UNCHANGED assigned_exercises
    /\ UNCHANGED <<invoices, invoice_items, products, patients, appointments, env,
                   invoice_id_seq, settings, exercises>>

\* ------------------------------------------------------------------------
\* The portal over a database drawn from small tables
\* ------------------------------------------------------------------------
AuthHeaders ==
    { NoHeader, <<"Bearer">>, <<"Bearer", "">>, <<"Bearer", "", "t1">>,
      <<"Basic", "t1">>, <<"bearer", "t1">>, <<"Bearer", "expired">>,
      <<"Bearer", "t1">>, <<"Bearer", "t2">>, <<"Bearer", "t3">> }

PortalPatient(full_name, auth_user_id) ==
    [full_name |-> full_name, auth_user_id |-> auth_user_id,
     date_of_birth |-> NoDob, created_at |-> Instant(PrevDay(Today), 9)]

\* patients of user u1, of user u2, and one without a portal account
PortalPatientRows ==
    { PortalPatient("Ann", "u1"), PortalPatient("Bo", "u2"), PortalPatient("Cy", "") }

PortalAppointment(patient_id, start_time, status) ==
    [patient_id |-> patient_id, start_time |-> start_time, status |-> status]

PortalAppointmentRows ==
    { PortalAppointment(1, Instant(NextDay(Today), 9), "Scheduled"),
      PortalAppointment(1, Instant(PrevDay(Today), 9), "Completed"),
      PortalAppointment(2, Instant(NextDay(Today), 8), "Scheduled") }

Assignment(patient_id, exercise_id, completed_dates) ==
    [patient_id |-> patient_id, exercise_id |-> exercise_id,
     completed_dates |-> completed_dates]

PortalAssignmentTables ==
    { <<>>,
      <<Assignment(1, 1, Null)>>,
      <<Assignment(2, 1, Arr(<<PrevDay(Today)>>)), Assignment(1, 1, Arr(<<Today>>))>> }

Clinic == [clinic_name |-> "Kheng PhysioCare", phone_number |-> "012", address |-> "PP"]

\* patient_id uuid references patients(id), of assigned_exercises and of appointments
RowsReferencePatients(rows, pats) ==
    \A j \in DOMAIN rows : rows[j].patient_id \in DOMAIN pats

InitPortal ==
    /\ env = [now |-> Instant(Today, 12), tz |-> 0]
    /\ patients \in TablesOf(PortalPatientRows, MaxPatients)
    /\ appointments \in TablesOf(PortalAppointmentRows, MaxAppointments)
    /\ RowsReferencePatients(appointments, patients)
    /\ assigned_exercises \in PortalAssignmentTables
    /\ RowsReferencePatients(assigned_exercises, patients)
    /\ settings \in {<<>>, <<Clinic>>}
    /\ exercises = <<[title |-> "Bridge"]>>
    /\ invoices = <<>>
    /\ invoice_items = [i \in InvoiceIds |-> <<>>]
    /\ invoice_id_seq = 0
    /\ products = <<>>
    /\ req = [r \in Reqs |-> Idle]

NextPortal ==
    \E r \in Reqs :
        \/ ReceivePortalDashboard(r, AuthHeaders)
        \/ ReceiveCompleteExercise(r, AuthHeaders)
        \/ authenticatePatient(r)
        \/ getUserReturns(r)
        \/ PortalPatientLookup(r)
        \/ PortalReadCompletes(r)
        \/ CompleteFetchCurrent(r)
        \/ CompleteUpdate(r)

SpecPortal == InitPortal /\ [][NextPortal]_vars

\* ------------------------------------------------------------------------
\* Properties of the portal
\* ------------------------------------------------------------------------
IsPortalDashboard(r) == req[r].route = "GET /api/portal/dashboard"

\* the three reads of request r were issued
ReadsIssued(r) == IsPortalDashboard(r) /\ req[r].calc # NoCalc

\* C12: in GET /api/portal/dashboard, when one of the three concurrent reads
\* returns an error the request is answered 500 with success false and no
\* data, whichever read failed and in whatever order the reads complete; no
\* answer is sent while a read is outstanding.
C12_PortalReadFailure ==
    \A r \in DOMAIN req :
        ReadsIssued(r) =>
            /\ req[r].pc = "reads" => req[r].res = NoRes /\ req[r].data = NoData
            /\ (/\ req[r].pc = "done"
                /\ \E read \in PortalReads : req[r].calc.results[read].error) =>
                    /\ req[r].res = [status |-> 500, success |-> FALSE]
                    /\ req[r].data = NoData

\* the clinic settings were read first and failed, the other two reads
\* completed later with rows, and the answer is 500
C12_Witness ==
    \E r \in DOMAIN req :
        /\ ReadsIssued(r)
        /\ req[r].pc = "done"
        /\ req[r].calc.completed = <<"settings", "assigned_exercises", "appointments">>
        /\ req[r].calc.results["settings"].error
        /\ ~req[r].calc.results["appointments"].error
        /\ ~req[r].calc.results["assigned_exercises"].error
        /\ req[r].calc.results["appointments"].data # <<>>
        /\ req[r].res.status = 500

IsPortalRoute(r) == req[r].route \in PortalRoutes

\* the Authorization header is present and starts with "Bearer "
IsBearerHeader(h) == h # NoHeader /\ Len(h) >= 2 /\ h[1] = "Bearer"

\* the route handler of request r has run
HandlerRan(r) ==
    \/ req[r].pc \in {"patient_lookup", "reads", "fetch_current", "update_exercise"}
    \/ req[r].issued # <<>>
    \/ req[r].pc = "done" /\ req[r].res.status # 401

\* C13: on the routes behind authenticatePatient, a request whose
\* Authorization header is missing or not a Bearer token, or whose token the
\* identity provider does not resolve, is answered 401 and its handler never
\* runs and issues no database operation; the handler runs only with the
\* user the token resolved to attached to the request.
C13_BearerGate ==
    \A r \in DOMAIN req :
        IsPortalRoute(r) =>
            LET h == req[r].headers.authorization
            IN  /\ (~IsBearerHeader(h) \/ h[2] \notin DOMAIN TokenUsers) =>
                     /\ ~HandlerRan(r)
                     /\ req[r].pc = "done" =>
                            req[r].res = [status |-> 401, success |-> FALSE]
                /\ (req[r].pc = "done" /\ req[r].user = NoUser) =>
                     req[r].res = [status |-> 401, success |-> FALSE]
                /\ req[r].res.status = 401 => req[r].issued = <<>> /\ req[r].data = NoData
                /\ HandlerRan(r) =>
                     /\ IsBearerHeader(h)
                     /\ h[2] \in DOMAIN TokenUsers
                     /\ req[r].user = TokenUsers[h[2]]

\* a Bearer token the provider rejects, answered 401 without a database operation
C13_Witness ==
    \E r \in DOMAIN req :
        /\ IsPortalRoute(r)
        /\ req[r].headers.authorization = <<"Bearer", "expired">>
        /\ req[r].pc = "done"
        /\ req[r].res.status = 401
        /\ req[r].issued = <<>>

\* the ids of the patients whose auth_user_id is the id of user u
OwnPatients(u) == {i \in DOMAIN patients : patients[i].auth_user_id = u.id}

\* the response data computed from the rows of the patients in own alone
OwnDashboardData(own, u, now) ==
    LET ownPatients == [i \in own |-> patients[i]]
        ownAppointments ==
            [i \in {j \in DOMAIN appointments : appointments[j].patient_id \in own}
                |-> appointments[i]]
        ownAssigned ==
            [i \in {j \in DOMAIN assigned_exercises :
                        assigned_exercises[j].patient_id \in own}
                |-> assigned_exercises[i]]
        patient == portalPatient(ownPatients, u.id).data
    IN  portalResponseData(
            patient,
            [read \in PortalReads |->
                IF read = "appointments"
                THEN Ok(portalAppointments(ownAppointments, patient.id))
                ELSE IF read = "assigned_exercises"
                     THEN Ok(portalExercises(ownAssigned, exercises, patient.id))
                ELSE portalClinic(settings)],
            now)

\* C14: the data GET /api/portal/dashboard returns for user u is the data
\* computed from the rows of the patient whose auth_user_id is u alone, so
\* that no row of another patient changes it; a user with no patient row is
\* answered 404 without data.
C14_OnlyOwnData ==
    \A r \in DOMAIN req :
        (IsPortalDashboard(r) /\ req[r].pc = "done" /\ req[r].user # NoUser) =>
            /\ OwnPatients(req[r].user) = {} =>
                 /\ req[r].res = [status |-> 404, success |-> FALSE]
                 /\ req[r].data = NoData
            /\ req[r].res.status # 200 => req[r].data = NoData
            /\ req[r].res.status = 200 =>
                 req[r].data = OwnDashboardData(OwnPatients(req[r].user),
                                                req[r].user, env.now)

\* a dashboard answered with the user's appointment while the tables hold
\* another patient's appointment
C14_Witness ==
    \E r \in DOMAIN req :
        /\ IsPortalDashboard(r)
        /\ req[r].pc = "done"
        /\ req[r].res.status = 200
        /\ req[r].data.nextAppointment # Null
        /\ \E j \in DOMAIN appointments :
              appointments[j].patient_id \notin OwnPatients(req[r].user)
        /\ \E i \in DOMAIN patients : i \notin OwnPatients(req[r].user)

\* ------------------------------------------------------------------------
\* CRUD handlers: patients, appointments, products, exercises
\* ------------------------------------------------------------------------
\* a request to a route without middleware, as it arrives
CrudRequest(route, id, body, pc) ==
    [route |-> route, id |-> id, body |-> body, pc |-> pc, calc |-> NoCalc,
     newId |-> 0, res |-> NoRes, data |-> NoData,
     issued |-> <<>>]      \* the database operations issued for the request so far

\* the error of a supabase call, by its code: "" when the call itself failed
\* (no connection, a timeout), the SQLSTATE when the database refused the statement
DbError(code) == [error |-> TRUE, code |-> code, data |-> Null]

\* the integer a numeric column stores for a JSON number
ColumnInt(v) == v.n \div 100

\* ---- DELETE /api/patients/:id ----
PatientIds == 1..MaxPatients

\* the foreign keys of invoices.patient_id and appointments.patient_id
referencedByInvoiceOrAppointment(id) ==
    \/ \E i \in DOMAIN invoices : invoices[i].patient_id = Num(id)
    \/ \E j \in DOMAIN appointments : appointments[j].patient_id = id

\* assigned_exercises.patient_id references patients(id)
referencedByAssignment(id) ==
    \E j \in DOMAIN assigned_exercises : assigned_exercises[j].patient_id = id

\* the status for an error of the delete, with another SQLSTATE taken for the conflict
deleteErrorStatusOtherCode(error) == IF error.code = "23505" THEN 409 ELSE 500

\* error.code === '23503' ? 409 : 500
deleteErrorStatus(error) == IF error.code = "23503" THEN 409 ELSE 500

ReceiveDeletePatient(r) ==
    /\ req[r].pc = "idle"
    /\ \E id \in PatientIds :
          req' = [req EXCEPT ![r] =
                    CrudRequest("DELETE /api/patients/:id", id, Undefined, "delete_patient")]
    /\ UNCHANGED <<invoices, invoice_items, products, patients, appointments, env,
                   invoice_id_seq, otherTables>>

\* from patients delete where id = id: the call fails, the database refuses
\* the delete of a referenced row, or the row (if there is one) is deleted
DeletePatient(r) ==
    /\ req[r].route = "DELETE /api/patients/:id"
    /\ req[r].pc = "delete_patient"
    /\ \E callFailed \in BOOLEAN :
          LET id == req[r].id
              result == IF callFailed THEN DbError("")
                        ELSE IF /\ id \in DOMAIN patients
                                /\ \/ referencedByInvoiceOrAppointment(id)
                                   \/ referencedByAssignment(id)
                             THEN DbError("23503")
                        ELSE Ok(Null)
              q == [req[r] EXCEPT !.issued = @ \o <<"patients">>, !.calc = result]
          IN  /\ req' = [req EXCEPT ![r] =
                           IF result.error
                           THEN Respond(q, deleteErrorStatus(result), FALSE)
                           ELSE Respond(q, 200, TRUE)]
              /\ patients' = IF result.error THEN patients
                             ELSE [i \in DOMAIN patients \ {id} |-> patients[i]]
    /\ UNCHANGED <<invoices, invoice_items, products, appointments, env,
                   invoice_id_seq, otherTables>>

\* ---- POST /api/appointments, PATCH /api/appointments/:id ----
\* the truthiness of a JSON value
JsTruthy(v) ==
    IF v.k \in {"undefined", "null"} THEN FALSE
    ELSE IF v.k = "number" THEN v.n # 0
    ELSE IF v.k = "string" THEN (IF "cs" \in DOMAIN v THEN v.cs # <<>> ELSE v.t # "")
    ELSE TRUE

\* the validation left out
patientMissingNever(body) == FALSE

\* !patient_id
patientMissing(body) == ~JsTruthy(body.patient_id)

\* `${start}+07:00` read by the database: the instant seven hours before the
\* same wall-clock time in UTC
AtOffset7(t) ==
    IF t.hour >= 7 THEN Instant(t.date, t.hour - 7)
    ELSE Instant(PrevDay(t.date), t.hour + 17)

\* start ? `${start}+07:00` : null
startTimeOf(start) == IF JsTruthy(start) THEN AtOffset7(start.t) ELSE Null

\* a local date and hour as the body carries it ("2026-11-03T09:00")
LocalTime(t) == [k |-> "localtime", t |-> t]

\* the row both handlers write
AppointmentRowOf(body) ==
    [patient_id |-> ColumnInt(body.patient_id),
     start_time |-> startTimeOf(body.start),
     status |-> IF body.status.k = "undefined" THEN "" ELSE body.status.t]

AppointmentIds == 1..MaxAppointments

\* the handler up to its first await: 400 without a patient, else the insert is issued
ReceiveCreateAppointment(r, bodies) ==
    /\ req[r].pc = "idle"
    /\ \E body \in bodies :
          LET q == CrudRequest("POST /api/appointments", 0, body, "insert_appointment")
          IN  req' = [req EXCEPT ![r] =
                        IF patientMissing(body) THEN Respond(q, 400, FALSE)
                        ELSE [q EXCEPT !.issued = <<"appointments">>]]
    /\ UNCHANGED <<invoices, invoice_items, products, patients, appointments, env,
                   invoice_id_seq, otherTables>>

\* the insert returns: the row, or an error (the call failed, or the patient
\* does not exist)
InsertAppointment(r) ==
    /\ req[r].route = "POST /api/appointments"
    /\ req[r].pc = "insert_appointment"
    /\ \/ /\ ColumnInt(req[r].body.patient_id) \in DOMAIN patients
          /\ appointments' = Append(appointments, AppointmentRowOf(req[r].body))
          /\ req' = [req EXCEPT ![r] =
                       [Respond(req[r], 201, TRUE) EXCEPT
                          !.data = AppointmentRowOf(req[r].body)]]
       \/ /\ req' = [req EXCEPT ![r] = Respond(req[r], 500, FALSE)]
          /\ UNCHANGED appointments
    /\ UNCHANGED <<invoices, invoice_items, products, patients, env,
                   invoice_id_seq, otherTables>>

ReceiveUpdateAppointment(r, bodies) ==
    /\ req[r].pc = "idle"
    /\ \E body \in bodies, id \in AppointmentIds :
          LET q == CrudRequest("PATCH /api/appointments/:id", id, body,
                               "update_appointment")
          IN  req' = [req EXCEPT ![r] =
                        IF patientMissing(body) THEN Respond(q, 400, FALSE)
                        ELSE [q EXCEPT !.issued = <<"appointments">>]]
    /\ UNCHANGED <<invoices, invoice_items, products, patients, appointments, env,
                   invoice_id_seq, otherTables>>

\* the update with .single() returns: the row, or an error (the call failed,
\* no row has the id, or the patient does not exist)
UpdateAppointment(r) ==
    /\ req[r].route = "PATCH /api/appointments/:id"
    /\ req[r].pc = "update_appointment"
    /\ \/ /\ req[r].id \in DOMAIN appointments
          /\ ColumnInt(req[r].body.patient_id) \in DOMAIN patients
          /\ appointments' =
                [appointments EXCEPT ![req[r].id] =
                    [AppointmentRowOf(req[r].body) EXCEPT
                        !.status = IF req[r].body.status.k = "undefined"
                                   THEN appointments[req[r].id].status ELSE @]]
          /\ req' = [req EXCEPT ![r] =
                       [Respond(req[r], 200, TRUE) EXCEPT
                          !.data = appointments'[req[r].id]]]
       \/ /\ req' = [req EXCEPT ![r] = Respond(req[r], 500, FALSE)]
          /\ UNCHANGED appointments
    /\ UNCHANGED <<invoices, invoice_items, products, patients, env,
                   invoice_id_seq, otherTables>>

\* ---- POST /api/products ----
\* an error nothing catches leaves the async handler: the request gets no
\* response, or the framework's own error page (status 500, no JSON body)
Unhandled(q) ==
    { [q EXCEPT !.pc = "unhandled"],
      [q EXCEPT !.pc = "done",
                !.res = [status |-> 500, success |-> FALSE, json |-> FALSE]] }

NextProductId ==
    IF DOMAIN products = {} THEN 1
    ELSE (CHOOSE i \in DOMAIN products : \A j \in DOMAIN products : j <= i) + 1

ReceiveCreateProduct(r, bodies) ==
    /\ req[r].pc = "idle"
    /\ \E body \in bodies :
          req' = [req EXCEPT ![r] =
                    [CrudRequest("POST /api/products", 0, body, "insert_product")
                        EXCEPT !.issued = <<"products">>]]
    /\ UNCHANGED <<invoices, invoice_items, products, patients, appointments, env,
                   invoice_id_seq, otherTables>>

\* the insert returns.  With an error, data is null, the empty if of line
\* 435 goes on, and data[0] throws inside the argument of res...json()
InsertProduct(r) ==
    /\ req[r].route = "POST /api/products"
    /\ req[r].pc = "insert_product"
    /\ \/ /\ products' = products @@ (NextProductId :> ColumnInt(req[r].body.stock_level))
          /\ req' = [req EXCEPT ![r] =
                       [Respond(req[r], 201, TRUE) EXCEPT
                          !.calc = Ok(Null), !.newId = NextProductId]]
       \/ /\ \E q \in Unhandled([req[r] EXCEPT !.calc = DbError("")]) :
                req' = [req EXCEPT ![r] = q]
          /\ UNCHANGED products
    /\ UNCHANGED <<invoices, invoice_items, patients, appointments, env,
                   invoice_id_seq, otherTables>>

\* ---- POST /api/exercises ----
ReceiveCreateExercise(r, bodies) ==
    /\ req[r].pc = "idle"
    /\ \E body \in bodies :
          req' = [req EXCEPT ![r] =
                    [CrudRequest("POST /api/exercises", 0, body, "insert_exercise")
                        EXCEPT !.issued = <<"exercises">>]]
    /\ UNCHANGED <<invoices, invoice_items, products, patients, appointments, env,
                   invoice_id_seq, otherTables>>

InsertExercise(r) ==
    /\ req[r].route = "POST /api/exercises"
    /\ req[r].pc = "insert_exercise"
    /\ \/ /\ exercises' = Append(exercises, req[r].body)
          /\ req' = [req EXCEPT ![r] =
                       [Respond(req[r], 201, TRUE) EXCEPT
                          !.calc = Ok(Null), !.data = req[r].body]]
       \/ /\ req' = [req EXCEPT ![r] =
                       Respond([req[r] EXCEPT !.calc = DbError("")], 400, FALSE)]
          /\ UNCHANGED exercises
    /\ UNCHANGED <<invoices, invoice_items, products, patients, appointments, env,
                   invoice_id_seq, assigned_exercises, settings>>

\* ---- the requests and tables of the record routes ----
PatientIdValues == { Undefined, Null, Num(0), Str(""), Num(1), Num(MaxPatients + 1) }

StartValues == { Undefined, LocalTime(Instant(Today, 3)), LocalTime(Instant(NextDay(Today), 9)) }

AppointmentBodies ==
    { [patient_id |-> p, start |-> s, status |-> st] :
        p \in PatientIdValues, s \in StartValues, st \in {Undefined, Str("Completed")} }

ProductBodies == { [name |-> "Tape", stock_level |-> Num(3)],
                   [name |-> "Band", stock_level |-> Num(0)] }

ExerciseBodies == { [title |-> "Squat"], [title |-> "Plank"] }

\* every reference of a row names an existing patient
ReferencesHold ==
    /\ \A i \in DOMAIN invoices : ColumnInt(invoices[i].patient_id) \in DOMAIN patients
    /\ \A j \in DOMAIN appointments : appointments[j].patient_id \in DOMAIN patients
    /\ \A j \in DOMAIN assigned_exercises :
          assigned_exercises[j].patient_id \in DOMAIN patients

InitCrud ==
    /\ env = [now |-> Instant(Today, 12), tz |-> 0]
    /\ patients \in TablesOf(PortalPatientRows, MaxPatients)
    /\ appointments \in TablesOf(PortalAppointmentRows, MaxAppointments)
    /\ assigned_exercises \in PortalAssignmentTables
    /\ settings = <<Clinic>>
    /\ exercises = <<[title |-> "Bridge"]>>
    /\ invoices \in { <<>>, <<InvoiceRow("Paid", Instant(Today, 0), 200)>> }
    /\ invoice_items = [i \in InvoiceIds |-> <<>>]
    /\ invoice_id_seq = Len(invoices)
    /\ products = (1 :> 5) @@ (2 :> 1)
    /\ req = [r \in Reqs |-> Idle]
    /\ ReferencesHold

NextCrud ==
    \E r \in Reqs :
        \/ ReceiveDeletePatient(r)
        \/ DeletePatient(r)
        \/ ReceiveCreateAppointment(r, AppointmentBodies)
        \/ InsertAppointment(r)
        \/ ReceiveUpdateAppointment(r, AppointmentBodies)
        \/ UpdateAppointment(r)
        \/ ReceiveCreateProduct(r, ProductBodies)
        \/ InsertProduct(r)
        \/ ReceiveCreateExercise(r, ExerciseBodies)
        \/ InsertExercise(r)

SpecCrud == InitCrud /\ [][NextCrud]_vars

\* ------------------------------------------------------------------------
\* Properties of the record routes
\* ------------------------------------------------------------------------
IsDeletePatient(r) == req[r].route = "DELETE /api/patients/:id"

\* request r's delete returns in this step for a patient that an invoice or an
\* appointment references
DeleteOfReferencedPatientReturns(r) ==
    /\ IsDeletePatient(r)
    /\ req[r].pc = "delete_patient"
    /\ req'[r].pc = "done"
    /\ req[r].id \in DOMAIN patients
    /\ referencedByInvoiceOrAppointment(req[r].id)

\* nothing of the patient or of the rows referencing a patient was deleted
NothingDeleted ==
    /\ patients' = patients
    /\ invoices' = invoices
    /\ appointments' = appointments
    /\ assigned_exercises' = assigned_exercises

\* C15 as stated: DELETE /api/patients/:id for a patient that an invoice or an
\* appointment references is always answered 409, with the patient row and
\* the rows referencing it unchanged
C15_Original ==
    [][\A r \in DOMAIN req :
          DeleteOfReferencedPatientReturns(r) =>
              /\ req'[r].res.status = 409
              /\ NothingDeleted]_vars

\* C15: DELETE /api/patients/:id for a patient that an invoice or an
\* appointment references is answered with success false: 409 when the
\* database rejects the delete for the reference (code 23503), 500 when the
\* delete call fails for another reason; in both cases the patient row and
\* every row referencing it are unchanged
C15_ReferencedPatientKept ==
    [][\A r \in DOMAIN req :
          DeleteOfReferencedPatientReturns(r) =>
              /\ req'[r].calc.error
              /\ req'[r].res.success = FALSE
              /\ req'[r].res.status = (IF req'[r].calc.code = "23503" THEN 409 ELSE 500)
              /\ NothingDeleted]_vars

C15_Witness ==
    \E r \in DOMAIN req :
        /\ IsDeletePatient(r)
        /\ req[r].pc = "done"
        /\ req[r].res = [status |-> 409, success |-> FALSE]
        /\ req[r].id \in DOMAIN patients
        /\ \E i \in DOMAIN invoices : invoices[i].patient_id = Num(req[r].id)

\* ------------------------------------------------------------------------
\* Properties of the steps of the invoice handlers
\* ------------------------------------------------------------------------
\* request r moves from step `from` to step `to` in this step
Moves(r, from, to) == req[r].pc = from /\ req'[r].pc = to

Answered500(q) == q.res = [status |-> 500, success |-> FALSE]

\* the totals of the stored row id are the ones request q calculated
RowHasNewTotals(rows, id, c) ==
    /\ rows[id].subtotal = c.subtotal
    /\ rows[id].discount_amount = c.dAmount
    /\ rows[id].total_amount = c.total_amount

\* C16: PATCH /api/invoices/:id runs delete old items, update invoice row,
\* insert new items, in this order and without rollback: a failed insert of
\* the new items is answered 500 with the row holding the new totals and the
\* old items deleted; a failed update of the row is answered 500 with the old
\* items deleted and the row unchanged
C16_UpdateNotAtomic ==
    [][\A r \in DOMAIN req :
          /\ (req[r].pc = "idle" /\ IsUpdate(r)') => req'[r].pc = "delete_items"
          /\ (IsUpdate(r) /\ req'[r].pc # req[r].pc) =>
                \/ /\ Moves(r, "delete_items", "update_invoice")
                   /\ invoice_items'[req[r].id] = <<>>
                   /\ invoices' = invoices
                \/ /\ Moves(r, "delete_items", "done")
                   /\ Answered500(req'[r])
                   /\ invoices' = invoices
                   /\ invoice_items' = invoice_items
                \/ /\ Moves(r, "update_invoice", "insert_items")
                   /\ invoice_items' = invoice_items
                   /\ (req[r].id \in DOMAIN invoices) =>
                         RowHasNewTotals(invoices', req[r].id, req[r].calc)
                \/ /\ Moves(r, "update_invoice", "done")
                   /\ Answered500(req'[r])
                   /\ invoices' = invoices
                   /\ invoice_items' = invoice_items
                   /\ invoice_items[req[r].id] = <<>>
                \/ /\ Moves(r, "insert_items", "done")
                   /\ invoices' = invoices
                   /\ (req[r].id \in DOMAIN invoices) =>
                         RowHasNewTotals(invoices, req[r].id, req[r].calc)
                   /\ IF req'[r].res.success
                      THEN /\ req'[r].res.status = 200
                           /\ invoice_items'[req[r].id] =
                                 ItemRows(req[r].id, req[r].calc.normalizedItems)
                      ELSE /\ Answered500(req'[r])
                           /\ invoice_items'[req[r].id] = <<>>]_vars

\* an update of invoice 1 answered 500 after the row took the new totals,
\* with the old items gone and the new ones not stored
C16_Witness ==
    \E r \in DOMAIN req :
        /\ IsUpdate(r) /\ req[r].pc = "done" /\ Answered500(req[r])
        /\ req[r].id = 1
        /\ req[r].calc # NoCalc
        /\ req[r].calc.normalizedItems # <<>>
        /\ req[r].calc.total_amount # SeedInvoice.total_amount
        /\ RowHasNewTotals(invoices, 1, req[r].calc)
        /\ invoice_items[1] = <<>>

\* the invoice row of request q and all its items are stored
RowAndItemsStored(q) ==
    /\ q.newId \in DOMAIN invoices
    /\ invoice_items[q.newId] = ItemRows(q.newId, q.calc.normalizedItems)

\* C20: POST /api/invoices runs insert invoice row, insert items, decrease
\* stock, in this order: the stock changes only in the decrease_stock step
\* of a request whose row and items are all stored, and a failed insert of
\* the items is answered 500 with the row stored, no item stored and no
\* stock decreased
C20_CreateOrder ==
    [][/\ \A r \in DOMAIN req :
            /\ (req[r].pc = "idle" /\ IsCreate(r)') => req'[r].pc = "insert_invoice"
            /\ (IsCreate(r) /\ req'[r].pc # req[r].pc) =>
                  \/ /\ Moves(r, "insert_invoice", "insert_items")
                     /\ req'[r].newId \in DOMAIN invoices' \ DOMAIN invoices
                     /\ req[r].calc.normalizedItems # <<>>
                     /\ invoice_items' = invoice_items
                     /\ products' = products
                  \/ /\ Moves(r, "insert_invoice", "decrease_stock")
                     /\ req'[r].newId \in DOMAIN invoices' \ DOMAIN invoices
                     /\ req[r].calc.normalizedItems = <<>>
                     /\ products' = products
                  \/ /\ Moves(r, "insert_invoice", "done")
                     /\ products' = products
                     /\ invoice_items' = invoice_items
                     /\ IF req'[r].res.success
                        THEN /\ req[r].calc.normalizedItems = <<>>
                             /\ updatesOf(req[r].body) = <<>>
                             /\ req'[r].newId \in DOMAIN invoices' \ DOMAIN invoices
                        ELSE Answered500(req'[r]) /\ invoices' = invoices
                  \/ /\ Moves(r, "insert_items", "decrease_stock")
                     /\ RowAndItemsStored(req[r])'
                     /\ invoices' = invoices
                     /\ products' = products
                  \/ /\ Moves(r, "insert_items", "done")
                     /\ invoices' = invoices
                     /\ products' = products
                     /\ req[r].newId \in DOMAIN invoices
                     /\ IF req'[r].res.success
                        THEN RowAndItemsStored(req[r])' /\ updatesOf(req[r].body) = <<>>
                        ELSE /\ Answered500(req'[r])
                             /\ invoice_items'[req[r].newId] = <<>>
                  \/ /\ Moves(r, "decrease_stock", "done")
                     /\ RowAndItemsStored(req[r])
                     /\ invoices' = invoices
                     /\ invoice_items' = invoice_items
                     /\ req'[r].res = [status |-> 201, success |-> TRUE]
       /\ products' # products =>
             \E r \in DOMAIN req :
                 /\ IsCreate(r)
                 /\ Moves(r, "decrease_stock", "done")
                 /\ RowAndItemsStored(req[r])]_vars

\* a create with items and stock updates answered 500 by the items insert:
\* the row is stored without items and the stock is as it was
C20_Witness ==
    \E r \in DOMAIN req :
        /\ IsCreate(r) /\ req[r].pc = "done" /\ Answered500(req[r])
        /\ req[r].newId \in DOMAIN invoices
        /\ req[r].calc.normalizedItems # <<>>
        /\ updatesOf(req[r].body) # <<>>
        /\ invoice_items[req[r].newId] = <<>>
        /\ products = (1 :> 5) @@ (2 :> 1)

\* ------------------------------------------------------------------------
\* DELETE /api/invoices/:id, and the invoice routes interleaved
\* ------------------------------------------------------------------------
ReceiveDeleteInvoice(r) ==
    /\ req[r].pc = "idle"
    /\ \E id \in InvoiceIds :
          req' = [req EXCEPT ![r] =
                    CrudRequest("DELETE /api/invoices/:id", id, Undefined, "delete_items")]
    /\ UNCHANGED <<invoices, invoice_items, products, patients, appointments, env,
                   invoice_id_seq, otherTables>>

\* DeleteInvoiceItems that goes on to the row with the items still stored
DeleteInvoiceKeepItems(r) ==
    /\ req[r].route = "DELETE /api/invoices/:id"
    /\ req[r].pc = "delete_items"
    /\ \/ req' = [req EXCEPT ![r] =
                    [req[r] EXCEPT !.pc = "delete_invoice", !.issued = <<"invoice_items">>]]
       \/ req' = [req EXCEPT ![r] = Respond(req[r], 500, FALSE)]
    /\ UNCHANGED <<invoices, invoice_items, products, patients, appointments, env,
                   invoice_id_seq, otherTables>>

\* first the items of the invoice
DeleteInvoiceItems(r) ==
    /\ req[r].route = "DELETE /api/invoices/:id"
    /\ req[r].pc = "delete_items"
    /\ \/ /\ invoice_items' = [invoice_items EXCEPT ![req[r].id] = <<>>]
          /\ req' = [req EXCEPT ![r] =
                       [req[r] EXCEPT !.pc = "delete_invoice",
                                      !.issued = <<"invoice_items">>]]
       \/ /\ req' = [req EXCEPT ![r] = Respond(req[r], 500, FALSE)]
          /\ UNCHANGED invoice_items
    /\ UNCHANGED <<invoices, products, patients, appointments, env, invoice_id_seq,
                   otherTables>>

\* the database refuses to delete an invoice row that items reference
itemsReference(id) == invoice_items[id] # <<>>

\* then the invoice row: the delete fails when the call fails or items that
\* another request stored in between reference the row
DeleteInvoiceRow(r) ==
    /\ req[r].route = "DELETE /api/invoices/:id"
    /\ req[r].pc = "delete_invoice"
    /\ \/ /\ ~(req[r].id \in DOMAIN invoices /\ itemsReference(req[r].id))
          /\ invoices' = [i \in DOMAIN invoices \ {req[r].id} |-> invoices[i]]
          /\ req' = [req EXCEPT ![r] =
                       Respond([req[r] EXCEPT !.issued = @ \o <<"invoices">>], 200, TRUE)]
       \/ /\ req' = [req EXCEPT ![r] =
                       Respond([req[r] EXCEPT !.issued = @ \o <<"invoices">>], 500, FALSE)]
          /\ UNCHANGED invoices
    /\ UNCHANGED <<invoice_items, products, patients, appointments, env, invoice_id_seq,
                   otherTables>>

\* requests in flight together
InterleavedReqs == {"r1", "r2", "r3"}

InterleavedBodies ==
    { Body(items, Undefined, Undefined, Undefined, Undefined, Undefined, updates) :
        items \in { Arr(<<>>),
                    Arr(<<RawItem(Num(2), Num(10), Undefined, Undefined, Undefined)>>) },
        updates \in { Undefined, Arr(<<[id |-> 1, quantitySold |-> 1]>>) } }

InitInterleaved ==
    /\ invoices = (1 :> SeedInvoice)
    /\ invoice_items = [i \in InvoiceIds |-> IF i = 1 THEN SeedItems ELSE <<>>]
    /\ products = (1 :> 5) @@ (2 :> 1)
    /\ patients = (1 :> [date_of_birth |-> Date(1986, 5, 17),
                         created_at |-> Instant(PrevDay(Today), 9)])
    /\ appointments = <<>>
    /\ env = [now |-> Instant(Today, 12), tz |-> 0]
    /\ req = [r \in InterleavedReqs |-> Idle]
    /\ invoice_id_seq = 1
    /\ assigned_exercises = <<>>
    /\ settings = <<>>
    /\ exercises = <<>>

NextInterleaved ==
    \E r \in InterleavedReqs :
        \/ ReceiveCreateInvoice(r, InterleavedBodies)
        \/ CreateInsertInvoice(r)
        \/ CreateInsertItems(r)
        \/ CreateDecreaseStock(r)
        \/ ReceiveUpdateInvoice(r, InterleavedBodies)
        \/ UpdateDeleteItems(r)
        \/ UpdateInvoiceRow(r)
        \/ UpdateInsertItems(r)
        \/ ReceiveDeleteInvoice(r)
        \/ DeleteInvoiceItems(r)
        \/ DeleteInvoiceRow(r)

SpecInterleaved == InitInterleaved /\ [][NextInterleaved]_vars

IsDeleteInvoice(r) == req[r].route = "DELETE /api/invoices/:id"

ItemsBelong ==
    \A i \in DOMAIN invoice_items :
        \A j \in 1..Len(invoice_items[i]) :
            /\ invoice_items[i][j].invoice_id = i
            /\ i \in DOMAIN invoices

IsAppointmentWrite(r) ==
    req[r].route \in {"POST /api/appointments", "PATCH /api/appointments/:id"}

\* the body of request r has no patient_id
NoPatientId(r) == req[r].body.patient_id \in {Undefined, Null}

\* C18: POST /api/appointments and PATCH /api/appointments/:id with no
\* patient_id in the body are answered 400 with success false; no insert or
\* update is issued to the appointments table and the stored appointments
\* are unchanged
C18_PatientRequired ==
    /\ [](\A r \in DOMAIN req :
             (IsAppointmentWrite(r) /\ NoPatientId(r)) =>
                 /\ req[r].pc = "done"
                 /\ req[r].res = [status |-> 400, success |-> FALSE]
                 /\ req[r].issued = <<>>)
    /\ [][(\E r \in DOMAIN req : (IsAppointmentWrite(r) /\ NoPatientId(r))') =>
             appointments' = appointments]_vars

\* an update of a stored appointment without a patient_id, answered 400
C18_Witness ==
    \E r \in DOMAIN req :
        /\ req[r].route = "PATCH /api/appointments/:id"
        /\ req[r].body.patient_id = Undefined
        /\ req[r].body.start # Undefined
        /\ req[r].id \in DOMAIN appointments
        /\ req[r].pc = "done"
        /\ req[r].res = [status |-> 400, success |-> FALSE]

\* request r is over: it was answered, or its handler ended without answering
Settled(r) == req[r].pc \in {"done", "unhandled"}

\* request r got one response with a JSON body
AnsweredWithJson(r) ==
    /\ req[r].pc = "done"
    /\ req[r].res.status # 0
    /\ "json" \notin DOMAIN req[r].res

\* C19: on every route, whatever its database calls return, the handler sends
\* exactly one response, and a failed call that is not mapped to
\* 400/401/403/404/409 is answered 500 with success false; this includes
\* POST /api/products when the insert returns an error
C19_OneResponse ==
    \A r \in DOMAIN req :
        (req[r].route \in {"POST /api/products", "POST /api/exercises",
                           "DELETE /api/patients/:id"} /\ Settled(r)) =>
            /\ AnsweredWithJson(r)
            /\ req[r].calc.error =>
                  /\ req[r].res.success = FALSE
                  /\ req[r].res.status \in {400, 409, 500}

\* the stock after the calls of request q, those in `failed` having failed
StockAfter(q, failed) == decrease_stock(products, updatesOf(q.body), failed)

\* C21: in POST /api/invoices a failure of one or more decrease_stock calls
\* does not fail the request: the answer is 201 with success true, the
\* invoice row and its items stay stored, and the stock is the one the calls
\* that succeeded left
C21_StockFailureIgnored ==
    [][\A r \in DOMAIN req :
          (IsCreate(r) /\ req[r].pc = "decrease_stock" /\ req'[r] # req[r]) =>
              /\ req'[r].pc = "done"
              /\ req'[r].res = [status |-> 201, success |-> TRUE]
              /\ invoices' = invoices
              /\ invoice_items' = invoice_items
              /\ RowAndItemsStored(req[r])'
              /\ \E failed \in SUBSET (1..Len(updatesOf(req[r].body))) :
                    products' = StockAfter(req[r], failed)]_vars

\* a create with two stock updates answered 201 although the second call
\* failed: product 1 was decreased, product 2 was not, the row is stored
C21_Witness ==
    \E r \in DOMAIN req :
        /\ IsCreate(r) /\ req[r].pc = "done"
        /\ req[r].res = [status |-> 201, success |-> TRUE]
        /\ updatesOf(req[r].body) =
              <<[id |-> 1, quantitySold |-> 1], [id |-> 2, quantitySold |-> 2]>>
        /\ products = (1 :> 4) @@ (2 :> 1)
        /\ req[r].newId \in DOMAIN invoices
        /\ req[r].calc.normalizedItems # <<>>
        /\ invoice_items[req[r].newId] = ItemRows(req[r].newId, req[r].calc.normalizedItems)

\* the requests that have been received are all updates of invoice id, and
\* all of them were answered with success
OnlySuccessfulUpdatesOf(id) ==
    /\ \E r \in DOMAIN req : req[r].pc # "idle"
    /\ \A r \in DOMAIN req :
          req[r].pc # "idle" =>
              /\ IsUpdate(r) /\ req[r].id = id
              /\ req[r].pc = "done" /\ req[r].res.success

\* C22: after any interleaving of PATCH /api/invoices/:id requests on the
\* same invoice that all answer success, the stored items of the invoice are
\* exactly the normalized items of one of the requests, and the stored
\* subtotal is the one that same request computed
C22_OneRequestsItems ==
    \A id \in DOMAIN invoices :
        OnlySuccessfulUpdatesOf(id) =>
            \E r \in DOMAIN req :
                /\ req[r].pc # "idle"
                /\ invoice_items[id] = ItemRows(id, req[r].calc.normalizedItems)
                /\ invoices[id].subtotal = req[r].calc.subtotal

\* ------------------------------------------------------------------------
\* Properties of PATCH /api/assigned-exercises/:id/complete
\* ------------------------------------------------------------------------
IsComplete(r) == req[r].route = "PATCH /api/assigned-exercises/:id/complete"

\* assignment j is of a patient whose auth_user_id is u
AssignmentOf(j, u) ==
    /\ assigned_exercises[j].patient_id \in DOMAIN patients
    /\ patients[assigned_exercises[j].patient_id].auth_user_id = u

\* C23: a completion request made with the token of principal u changes the
\* completed_dates only of an assignment whose patient has auth_user_id u
C23_OwnAssignmentOnly ==
    [][\A r \in DOMAIN req :
          (IsComplete(r) /\ req[r].pc = "update_exercise" /\ req'[r].pc = "done") =>
              \A j \in DOMAIN assigned_exercises :
                  assigned_exercises'[j] # assigned_exercises[j] =>
                      AssignmentOf(j, req[r].user.id)]_vars

\* ------------------------------------------------------------------------
\* Completion requests in flight together, over midnight
\* ------------------------------------------------------------------------
MaxMidnights == 1

RECURSIVE DayAfter(_, _)
DayAfter(dt, n) == IF n = 0 THEN dt ELSE NextDay(DayAfter(dt, n - 1))

\* the server's clock passes midnight UTC: new Date() gives the next date
MidnightPasses ==
    /\ \E n \in 0..(MaxMidnights - 1) : env.now.date = DayAfter(Today, n)
    /\ env' = [env EXCEPT !.now = Instant(NextDay(env.now.date), 0)]
    /\ UNCHANGED <<invoices, invoice_items, products, patients, appointments, req,
                   invoice_id_seq, otherTables>>

CompletionReqs == {"r1", "r2", "r3"}

CompletionHeaders == { <<"Bearer", "t1">> }

InitCompletions ==
    /\ env = [now |-> Instant(Today, 23), tz |-> 0]
    /\ patients = <<PortalPatient("Ann", "u1"), PortalPatient("Bo", "u2")>>
    /\ appointments = <<>>
    /\ assigned_exercises \in PortalAssignmentTables
    /\ settings = <<Clinic>>
    /\ exercises = <<[title |-> "Bridge"]>>
    /\ invoices = <<>>
    /\ invoice_items = [i \in InvoiceIds |-> <<>>]
    /\ invoice_id_seq = 0
    /\ products = <<>>
    /\ req = [r \in CompletionReqs |-> Idle]

NextCompletions ==
    \/ MidnightPasses
    \/ \E r \in CompletionReqs :
          \/ ReceiveCompleteExercise(r, CompletionHeaders)
          \/ authenticatePatient(r)
          \/ getUserReturns(r)
          \/ CompleteFetchCurrent(r)
          \/ CompleteUpdate(r)

SpecCompletions == InitCompletions /\ [][NextCompletions]_vars

\* the dates stored for assignment j
CompletedDates(j) ==
    IF assigned_exercises[j].completed_dates = Null THEN <<>>
    ELSE assigned_exercises[j].completed_dates.a

\* how many times date d is in the list
Occurrences(dates, d) == Cardinality({ i \in 1..Len(dates) : dates[i] = d })

\* request r marked assignment j complete and was answered with success
Completed(r, j) ==
    /\ IsComplete(r) /\ req[r].id = j
    /\ req[r].pc = "done" /\ req[r].res.success

\* C24: marking an assigned exercise complete is idempotent per day: once
\* requests of one day, sequential or interleaved, have succeeded on an
\* assignment, its completed_dates holds that day exactly once, and no
\* completed_dates ever holds a date twice
C24_OncePerDay ==
    /\ \A j \in DOMAIN assigned_exercises :
          \A i \in 1..Len(CompletedDates(j)) :
              Occurrences(CompletedDates(j), CompletedDates(j)[i]) = 1
    /\ \A j \in DOMAIN assigned_exercises :
          \A r \in DOMAIN req :
              (/\ Completed(r, j)
               /\ \A q \in DOMAIN req :
                     Completed(q, j) => req[q].calc.today = req[r].calc.today) =>
                  Occurrences(CompletedDates(j), req[r].calc.today) = 1

\* three requests of the same day have succeeded on assignment 1, whose list
\* has the day once
C24_Witness ==
    /\ \A r \in DOMAIN req : Completed(r, 1) /\ req[r].calc.today = Today
    /\ Occurrences(CompletedDates(1), Today) = 1

\* C25: completed_dates only grows: once a completion request for date d has
\* answered success, d stays in completed_dates of the assignment, whatever
\* later or concurrent completion requests do, also those that read the list
\* before d was written and carry another date
C25_DatesKept ==
    \A j \in DOMAIN assigned_exercises :
        \A r \in DOMAIN req :
            Completed(r, j) => Occurrences(CompletedDates(j), req[r].calc.today) >= 1

====
